---- MODULE Spec2Model ----
(***************************************************************************)
(* A model of the chess engine: board, move generator, legality filter,    *)
(* move application, FEN codec, Zobrist key, transposition table and the   *)
(* root driver.  Squares are 0..63 with square = rank*8 + file, rank 0     *)
(* being Black's back rank.                                                *)
(***************************************************************************)
EXTENDS Integers, Sequences, FiniteSets, TLC

VARIABLES state, plies, last, fenIO, zob, table, ttLast, pick, probe, search,
          evl, book, selfplay, calls

vars == <<state, plies, last, fenIO, zob, table, ttLast, pick, probe, search,
          evl, book, selfplay, calls>>

(***************************************************************************)
(* Bounds of the model.                                                    *)
(***************************************************************************)
MaxPlies == 2

MaxOpeningPlies == 1

(***************************************************************************)
(* board.js                                                                *)
(***************************************************************************)
Squares == 0..63

NoSq == -1

toIndex(r, f) == r * 8 + f

fromIndex(i) == [r |-> i \div 8, f |-> i % 8]

files == <<"a", "b", "c", "d", "e", "f", "g", "h">>

Null == [c |-> "-", t |-> "-"]

Pc(c, t) == [c |-> c, t |-> t]

backRank == <<"R", "N", "B", "Q", "K", "B", "N", "R">>

makeInitialBoard ==
    [i \in Squares |->
        IF i \div 8 = 0 THEN Pc("b", backRank[(i % 8) + 1])
        ELSE IF i \div 8 = 1 THEN Pc("b", "P")
        ELSE IF i \div 8 = 6 THEN Pc("w", "P")
        ELSE IF i \div 8 = 7 THEN Pc("w", backRank[(i % 8) + 1])
        ELSE Null]

(***************************************************************************)
(* moves.js: pseudo-move generators                                        *)
(***************************************************************************)
onBoard(r, f) == r >= 0 /\ r < 8 /\ f >= 0 /\ f < 8

Abs(x) == IF x < 0 THEN -x ELSE x

Sign(x) == IF x < 0 THEN -1 ELSE IF x > 0 THEN 1 ELSE 0

Other(c) == IF c = "w" THEN "b" ELSE "w"

blocked(s, myColor, i) == s.board[i] # Null /\ s.board[i].c = myColor

canLand(s, myColor, i) == s.board[i] = Null \/ ~blocked(s, myColor, i)

knightDeltas ==
    {<<-2, -1>>, <<-2, 1>>, <<-1, -2>>, <<-1, 2>>,
     <<1, -2>>, <<1, 2>>, <<2, -1>>, <<2, 1>>}

dirsDiag == {<<1, 1>>, <<1, -1>>, <<-1, 1>>, <<-1, -1>>}

dirsOrtho == {<<1, 0>>, <<-1, 0>>, <<0, 1>>, <<0, -1>>}

\* The squares a slider of colour myColor standing on (r, f) reaches along
\* (dr, df): it stops before a friend and on the first enemy.
RECURSIVE slide(_, _, _, _, _, _)
slide(s, myColor, r, f, dr, df) ==
    LET rr == r + dr
        ff == f + df
    IN  IF ~onBoard(rr, ff) THEN {}
        ELSE IF blocked(s, myColor, toIndex(rr, ff)) THEN {}
        ELSE IF s.board[toIndex(rr, ff)] # Null THEN {toIndex(rr, ff)}
        ELSE {toIndex(rr, ff)} \cup slide(s, myColor, rr, ff, dr, df)

knightMoves(s, i) ==
    LET p == s.board[i]
        r == i \div 8
        f == i % 8
    IN  IF p = Null \/ p.t # "N" THEN {}
        ELSE {toIndex(r + d[1], f + d[2]) : d \in
                {e \in knightDeltas :
                    /\ onBoard(r + e[1], f + e[2])
                    /\ canLand(s, p.c, toIndex(r + e[1], f + e[2]))}}

bishopMoves(s, i) ==
    LET p == s.board[i]
    IN  IF p = Null \/ p.t # "B" THEN {}
        ELSE UNION {slide(s, p.c, i \div 8, i % 8, d[1], d[2]) : d \in dirsDiag}

rookMoves(s, i) ==
    LET p == s.board[i]
    IN  IF p = Null \/ p.t # "R" THEN {}
        ELSE UNION {slide(s, p.c, i \div 8, i % 8, d[1], d[2]) : d \in dirsOrtho}

queenMoves(s, i) ==
    LET p == s.board[i]
    IN  IF p = Null \/ p.t # "Q" THEN {}
        ELSE UNION {slide(s, p.c, i \div 8, i % 8, d[1], d[2]) :
                        d \in dirsOrtho \cup dirsDiag}

\* The first occupied square on the ray from (r, f) along (dr, df), or NoSq.
RECURSIVE firstOnRay(_, _, _, _, _)
firstOnRay(s, r, f, dr, df) ==
    LET rr == r + dr
        ff == f + df
    IN  IF ~onBoard(rr, ff) THEN NoSq
        ELSE IF s.board[toIndex(rr, ff)] # Null THEN toIndex(rr, ff)
        ELSE firstOnRay(s, rr, ff, dr, df)

isSquareAttacked(s, i, color) ==
    LET r == i \div 8
        f == i % 8
        pdir == IF color = "w" THEN 1 ELSE -1
        has(rr, ff, t) ==
            /\ onBoard(rr, ff)
            /\ s.board[toIndex(rr, ff)] = Pc(color, t)
        rayHit(d, kinds) ==
            LET q == firstOnRay(s, r, f, d[1], d[2])
            IN  q # NoSq /\ s.board[q].c = color /\ s.board[q].t \in kinds
    IN  \/ \E df \in {-1, 1} : has(r + pdir, f + df, "P")
        \/ \E d \in knightDeltas : has(r + d[1], f + d[2], "N")
        \/ \E d \in dirsDiag : rayHit(d, {"B", "Q"})
        \/ \E d \in dirsOrtho : rayHit(d, {"R", "Q"})
        \/ \E d \in dirsDiag \cup dirsOrtho : has(r + d[1], f + d[2], "K")

includes(str, ch) == \E k \in 1..Len(str) : str[k] = ch

\* kingMoves without the test of the square the king passes over.
kingMoves_noTransit(s, i) ==
    LET p == s.board[i]
        r == i \div 8
        f == i % 8
        steps == {toIndex(r + d[1], f + d[2]) : d \in
                    {e \in dirsDiag \cup dirsOrtho :
                        /\ onBoard(r + e[1], f + e[2])
                        /\ canLand(s, p.c, toIndex(r + e[1], f + e[2]))}}
        enemy == Other(p.c)
        rights == s.castleRight
        kingStart == \/ (p.c = "w" /\ r = 7 /\ f = 4)
                     \/ (p.c = "b" /\ r = 0 /\ f = 4)
        e == toIndex(r, 4)
        safe(sq) == ~isSquareAttacked(s, sq, enemy)
        empty(sq) == s.board[sq] = Null
        short(ch) ==
            IF /\ includes(rights, ch)
               /\ empty(toIndex(r, 5)) /\ empty(toIndex(r, 6))
               /\ safe(e) /\ safe(toIndex(r, 6))
               /\ s.board[toIndex(r, 7)] = Pc(p.c, "R")
            THEN {toIndex(r, 6)} ELSE {}
        long(ch) ==
            IF /\ includes(rights, ch)
               /\ empty(toIndex(r, 3)) /\ empty(toIndex(r, 2))
               /\ empty(toIndex(r, 1))
               /\ safe(e) /\ safe(toIndex(r, 2))
               /\ s.board[toIndex(r, 0)] = Pc(p.c, "R")
            THEN {toIndex(r, 2)} ELSE {}
    IN  IF p = Null \/ p.t # "K" THEN {}
        ELSE IF ~kingStart THEN steps
        ELSE IF p.c = "w" THEN steps \cup short("K") \cup long("Q")
        ELSE steps \cup short("k") \cup long("q")

kingMoves(s, i) ==
    LET p == s.board[i]
        r == i \div 8
        f == i % 8
        steps == {toIndex(r + d[1], f + d[2]) : d \in
                    {e \in dirsDiag \cup dirsOrtho :
                        /\ onBoard(r + e[1], f + e[2])
                        /\ canLand(s, p.c, toIndex(r + e[1], f + e[2]))}}
        enemy == Other(p.c)
        rights == s.castleRight
        kingStart == \/ (p.c = "w" /\ r = 7 /\ f = 4)
                     \/ (p.c = "b" /\ r = 0 /\ f = 4)
        e == toIndex(r, 4)
        safe(sq) == ~isSquareAttacked(s, sq, enemy)
        empty(sq) == s.board[sq] = Null
        short(ch) ==
            IF /\ includes(rights, ch)
               /\ empty(toIndex(r, 5)) /\ empty(toIndex(r, 6))
               /\ safe(e) /\ safe(toIndex(r, 5)) /\ safe(toIndex(r, 6))
               /\ s.board[toIndex(r, 7)] = Pc(p.c, "R")
            THEN {toIndex(r, 6)} ELSE {}
        long(ch) ==
            IF /\ includes(rights, ch)
               /\ empty(toIndex(r, 3)) /\ empty(toIndex(r, 2))
               /\ empty(toIndex(r, 1))
               /\ safe(e) /\ safe(toIndex(r, 3)) /\ safe(toIndex(r, 2))
               /\ s.board[toIndex(r, 0)] = Pc(p.c, "R")
            THEN {toIndex(r, 2)} ELSE {}
    IN  IF p = Null \/ p.t # "K" THEN {}
        ELSE IF ~kingStart THEN steps
        ELSE IF p.c = "w" THEN steps \cup short("K") \cup long("Q")
        ELSE steps \cup short("k") \cup long("q")

pawnMoves(s, i) ==
    LET p == s.board[i]
        r == i \div 8
        f == i % 8
        dir == IF p.c = "w" THEN -1 ELSE 1
        startRank == IF p.c = "w" THEN 6 ELSE 1
        r1 == r + dir
        pushes ==
            IF onBoard(r1, f) /\ s.board[toIndex(r1, f)] = Null
            THEN {toIndex(r1, f)} \cup
                 (IF r = startRank /\ s.board[toIndex(r + 2 * dir, f)] = Null
                  THEN {toIndex(r + 2 * dir, f)} ELSE {})
            ELSE {}
        caps == {toIndex(r1, f + df) : df \in
                    {d \in {-1, 1} :
                        /\ onBoard(r1, f + d)
                        /\ s.board[toIndex(r1, f + d)] # Null
                        /\ s.board[toIndex(r1, f + d)].c # p.c}}
        eps ==
            IF s.ep # NoSq
            THEN LET er == s.ep \div 8
                     ef == s.ep % 8
                 IN  IF /\ er = r + dir
                        /\ Abs(ef - f) = 1
                        /\ s.board[toIndex(r, ef)] # Null
                        /\ s.board[toIndex(r, ef)].t = "P"
                        /\ s.board[toIndex(r, ef)].c # p.c
                     THEN {s.ep} ELSE {}
            ELSE {}
    IN  IF p = Null \/ p.t # "P" THEN {}
        ELSE pushes \cup caps \cup eps

generateMoves(s, i) ==
    LET p == s.board[i]
    IN  IF p = Null THEN {}
        ELSE IF p.t = "N" THEN knightMoves(s, i)
        ELSE IF p.t = "B" THEN bishopMoves(s, i)
        ELSE IF p.t = "R" THEN rookMoves(s, i)
        ELSE IF p.t = "Q" THEN queenMoves(s, i)
        ELSE IF p.t = "K" THEN kingMoves(s, i)
        ELSE IF p.t = "P" THEN pawnMoves(s, i)
        ELSE {}

\* The lowest square holding the king of the colour, or NoSq.
findKing(s, color) ==
    LET ks == {i \in Squares : s.board[i] = Pc(color, "K")}
    IN  IF ks = {} THEN NoSq
        ELSE CHOOSE i \in ks : \A j \in ks : i <= j

inCheck(s, color) ==
    LET k == findKing(s, color)
    IN  IF k = NoSq THEN FALSE ELSE isSquareAttacked(s, k, Other(color))

(***************************************************************************)
(* moves.js: attackers, pins, do/undo legality, legal-move enumeration     *)
(***************************************************************************)
\* The empty squares met from (r, f) along (dr, df) before the first
\* occupied square or the edge.
RECURSIVE emptyRun(_, _, _, _, _)
emptyRun(s, r, f, dr, df) ==
    LET rr == r + dr
        ff == f + df
    IN  IF ~onBoard(rr, ff) THEN {}
        ELSE IF s.board[toIndex(rr, ff)] # Null THEN {}
        ELSE {toIndex(rr, ff)} \cup emptyRun(s, rr, ff, dr, df)

\* attackers of sq of the given colour; a slider carries the squares between
\* it and sq, any other attacker carries none (null in the source).
attackersToSquare(s, sq, color) ==
    LET r == sq \div 8
        f == sq % 8
        pdir == IF color = "w" THEN 1 ELSE -1
        leap(ds, t) ==
            {[sq |-> toIndex(r + d[1], f + d[2]), between |-> {}] : d \in
                {e \in ds :
                    /\ onBoard(r + e[1], f + e[2])
                    /\ s.board[toIndex(r + e[1], f + e[2])] = Pc(color, t)}}
        ray(ds, kinds) ==
            {[sq |-> firstOnRay(s, r, f, d[1], d[2]),
              between |-> emptyRun(s, r, f, d[1], d[2])] : d \in
                {e \in ds :
                    LET q == firstOnRay(s, r, f, e[1], e[2])
                    IN  /\ q # NoSq
                        /\ s.board[q].c = color
                        /\ s.board[q].t \in kinds}}
    IN  leap({<<pdir, -1>>, <<pdir, 1>>}, "P")
            \cup leap(knightDeltas, "N")
            \cup ray(dirsOrtho, {"R", "Q"})
            \cup ray(dirsDiag, {"B", "Q"})
            \cup leap(dirsOrtho \cup dirsDiag, "K")

normalize(dr, df) == <<Sign(dr), Sign(df)>>

\* The pin found on the ray from the king along (dr, df): <<allySq, dr, df>>
\* when exactly one ally is followed by an enemy slider of the ray's kind.
RECURSIVE pinOnRay(_, _, _, _, _, _, _)
pinOnRay(s, color, r, f, dr, df, allySq) ==
    LET rr == r + dr
        ff == f + df
        idx == toIndex(rr, ff)
        q == s.board[idx]
        diag == dr # 0 /\ df # 0
    IN  IF ~onBoard(rr, ff) THEN {}
        ELSE IF q = Null THEN pinOnRay(s, color, rr, ff, dr, df, allySq)
        ELSE IF q.c = color
             THEN IF allySq = NoSq
                  THEN pinOnRay(s, color, rr, ff, dr, df, idx)
                  ELSE {}
        ELSE IF /\ allySq # NoSq
                /\ \/ (~diag /\ q.t \in {"R", "Q"})
                   \/ (diag /\ q.t \in {"B", "Q"})
             THEN {<<allySq, normalize(dr, df)[1], normalize(dr, df)[2]>>}
             ELSE {}

computePins(s, color, kingSq) ==
    UNION {pinOnRay(s, color, kingSq \div 8, kingSq % 8, d[1], d[2], NoSq) :
                d \in dirsOrtho \cup dirsDiag}

alongRay(from, to, dr, df) ==
    LET dR == (to \div 8) - (from \div 8)
        dF == (to % 8) - (from % 8)
    IN  IF dr = 0 /\ df = 0 THEN FALSE
        ELSE IF dr = 0
             THEN dR = 0 /\ (Sign(dF) = df \/ Sign(dF) = -df)
        ELSE IF df = 0
             THEN dF = 0 /\ (Sign(dR) = dr \/ Sign(dR) = -dr)
        ELSE /\ Abs(dR) = Abs(dF)
             /\ \/ (Sign(dR) = dr /\ Sign(dF) = df)
                \/ (Sign(dR) = -dr /\ Sign(dF) = -df)

\* The board after the do step of the do/undo pair: the mover stands on
\* `to`, `from` is empty, and the pawn taken en passant is removed.
doMove(s, from, to) ==
    LET mover == s.board[from]
        dir == IF mover.c = "w" THEN -1 ELSE 1
        isEP == /\ mover.t = "P"
                /\ to = s.ep
                /\ from % 8 # to % 8
                /\ s.board[to] = Null
        epCapIdx == IF isEP THEN toIndex((to \div 8) - dir, to % 8) ELSE NoSq
    IN  [i \in Squares |->
            IF i = from THEN Null
            ELSE IF i = to THEN mover
            ELSE IF i = epCapIdx THEN Null
            ELSE s.board[i]]

\* leavesKingInCheck without the king's post-move square.
leavesKingInCheck_staleKing(s, from, to, knownKingSq) ==
    LET mover == s.board[from]
        after == [s EXCEPT !.board = doMove(s, from, to)]
        kingSq == IF knownKingSq # NoSq THEN knownKingSq
                  ELSE findKing(after, mover.c)
    IN  IF mover = Null THEN FALSE
        ELSE isSquareAttacked(after, kingSq, Other(mover.c))

\* knownKingSq = NoSq stands for the omitted fourth argument.
leavesKingInCheck(s, from, to, knownKingSq) ==
    LET mover == s.board[from]
        after == [s EXCEPT !.board = doMove(s, from, to)]
        kingSq == IF mover.t = "K" THEN to
                  ELSE IF knownKingSq # NoSq THEN knownKingSq
                  ELSE findKing(after, mover.c)
    IN  IF mover = Null THEN FALSE
        ELSE isSquareAttacked(after, kingSq, Other(mover.c))

\* kingSq, attackers and pins are the consts of the source: each is bound
\* once, as the one member of a set.
allLegalMoves(s, color) ==
    UNION {
      IF kingSq = NoSq THEN {}
      ELSE UNION {
        LET n == Cardinality(attackers)
            checker == CHOOSE a \in attackers : TRUE
            checkerSq == IF n = 1 THEN checker.sq ELSE NoSq
            blockSquares == IF n = 1 THEN checker.between ELSE {}
            mine == {i \in Squares :
                        s.board[i] # Null /\ s.board[i].c = color}
        IN  IF n >= 2
            THEN {<<kingSq, to>> : to \in
                    {t \in kingMoves(s, kingSq) :
                        ~leavesKingInCheck(s, kingSq, t, kingSq)}}
            ELSE UNION {
              UNION {{<<i, to>> : to \in
                        {t \in generateMoves(s, i) :
                            LET isKing == s.board[i].t = "K"
                                pinDirs == {pn \in pins : pn[1] = i}
                            IN  /\ (n = 1 /\ ~isKing) =>
                                    (t = checkerSq \/ t \in blockSquares)
                                /\ (~isKing) =>
                                    \A pn \in pinDirs :
                                        alongRay(i, t, pn[2], pn[3])
                                /\ ~leavesKingInCheck(s, i, t, kingSq)}} :
                     i \in mine}
              : pins \in {computePins(s, color, kingSq)}}
        : attackers \in {attackersToSquare(s, kingSq, Other(color))}}
      : kingSq \in {findKing(s, color)}}

\* The unoptimised enumeration: every pseudo move filtered by do/undo alone.
leavesKingInCheckRef(s, from, to) ==
    LET mover == s.board[from]
        dir == IF mover.c = "w" THEN -1 ELSE 1
        isEP == /\ mover.t = "P"
                /\ to = s.ep
                /\ from % 8 # to % 8
                /\ s.board[to] = Null
        capturedIdx == IF isEP THEN toIndex((to \div 8) - dir, to % 8) ELSE to
        tmp == [s EXCEPT !.board =
                    [i \in Squares |->
                        IF i = from THEN Null
                        ELSE IF i = to THEN mover
                        ELSE IF i = capturedIdx THEN Null
                        ELSE s.board[i]]]
    IN  IF mover = Null THEN FALSE ELSE inCheck(tmp, mover.c)

allLegalMovesRef(s, color) ==
    UNION {{<<i, to>> : to \in
                {t \in generateMoves(s, i) : ~leavesKingInCheckRef(s, i, t)}} :
            i \in {j \in Squares : s.board[j] # Null /\ s.board[j].c = color}}

(***************************************************************************)
(* rules.js and ai/pure.js: move application                               *)
(***************************************************************************)
order == <<"K", "Q", "k", "q">>

\* removeCastleRight rebuilds the string from `order`, so the result is
\* always in K, Q, k, q order whatever the input looked like.
removeCastleRight(castleRight, codes) ==
    SelectSeq(order, LAMBDA x : includes(castleRight, x) /\ x \notin codes)

cloneState(s) == s

\* The en-passant square published by a move: the square a pawn skipped
\* on a two-square push, none after any other move.
epAfter_pawnSquare(mover, from, to) ==
    IF mover.t = "P" /\ Abs((to \div 8) - (from \div 8)) = 2
    THEN to
    ELSE NoSq

epAfter(mover, from, to) ==
    IF mover.t = "P" /\ Abs((to \div 8) - (from \div 8)) = 2
    THEN toIndex(((to \div 8) + (from \div 8)) \div 2, from % 8)
    ELSE NoSq

\* The right tied to a rook's original corner: a1 Q, h1 K, a8 q, h8 k.
cornerRight_swapped(sq) ==
    IF sq = toIndex(7, 0) THEN {"K"}
    ELSE IF sq = toIndex(7, 7) THEN {"Q"}
    ELSE IF sq = toIndex(0, 0) THEN {"k"}
    ELSE IF sq = toIndex(0, 7) THEN {"q"}
    ELSE {}

cornerRight(sq) ==
    IF sq = toIndex(7, 0) THEN {"Q"}
    ELSE IF sq = toIndex(7, 7) THEN {"K"}
    ELSE IF sq = toIndex(0, 0) THEN {"q"}
    ELSE IF sq = toIndex(0, 7) THEN {"k"}
    ELSE {}

applyMovePure(s, from, to) ==
    LET mover == s.board[from]
        fromRF == fromIndex(from)
        toRF == fromIndex(to)
        dir == IF mover.c = "w" THEN -1 ELSE 1
        isCastle == mover.t = "K" /\ Abs(toRF.f - fromRF.f) = 2
        isEP == mover.t = "P" /\ to = s.ep /\ fromRF.f # toRF.f
        isPromotion == mover.t = "P" /\ (toRF.r = 0 \/ toRF.r = 7)
        capturedIndex == IF isEP THEN toIndex(toRF.r - dir, toRF.f) ELSE to
        captured == s.board[capturedIndex]
        halfmove == IF mover.t = "P" \/ captured # Null
                    THEN 0 ELSE s.halfmove + 1
        b1 == [s.board EXCEPT ![to] = mover, ![from] = Null]
        b2 == IF isEP THEN [b1 EXCEPT ![capturedIndex] = Null] ELSE b1
        b3 == IF isPromotion THEN [b2 EXCEPT ![to] = Pc(mover.c, "Q")] ELSE b2
        row == IF mover.c = "w" THEN 7 ELSE 0
        b4 == IF ~isCastle THEN b3
              ELSE IF to = toIndex(row, 6)
                   THEN [b3 EXCEPT ![toIndex(row, 5)] = b3[toIndex(row, 7)],
                                   ![toIndex(row, 7)] = Null]
                   ELSE [b3 EXCEPT ![toIndex(row, 3)] = b3[toIndex(row, 0)],
                                   ![toIndex(row, 0)] = Null]
        both == IF mover.c = "w" THEN {"K", "Q"} ELSE {"k", "q"}
        c1 == IF isCastle THEN removeCastleRight(s.castleRight, both)
              ELSE s.castleRight
        ep == epAfter(mover, from, to)
        c2 == IF mover.t = "K" THEN removeCastleRight(c1, both) ELSE c1
        c3 == IF mover.t = "R" /\ cornerRight(from) # {}
              THEN removeCastleRight(c2, cornerRight(from)) ELSE c2
        c4 == IF captured # Null /\ captured.t = "R" /\ cornerRight(to) # {}
              THEN removeCastleRight(c3, cornerRight(to)) ELSE c3
        turn == IF s.turn = "w" THEN "b" ELSE "w"
        fullmove == IF turn = "w" THEN s.fullmove + 1 ELSE s.fullmove
    IN  IF mover = Null THEN s
        ELSE [board |-> b4, turn |-> turn, castleRight |-> c4, ep |-> ep,
              halfmove |-> halfmove, fullmove |-> fullmove]

(***************************************************************************)
(* fen.js.  A string is a sequence of one-character strings.               *)
(***************************************************************************)
digitChars == <<"0", "1", "2", "3", "4", "5", "6", "7", "8", "9">>

isDigit(ch) == \E k \in 1..10 : digitChars[k] = ch

digitValue(ch) == (CHOOSE k \in 1..10 : digitChars[k] = ch) - 1

lowerChars == <<"p", "n", "b", "r", "q", "k", "z", "w">>

upperChars == <<"P", "N", "B", "R", "Q", "K", "Z", "W">>

toUpperCase(ch) ==
    IF \E k \in 1..Len(lowerChars) : lowerChars[k] = ch
    THEN upperChars[CHOOSE k \in 1..Len(lowerChars) : lowerChars[k] = ch]
    ELSE ch

toLowerCase(ch) ==
    IF \E k \in 1..Len(upperChars) : upperChars[k] = ch
    THEN lowerChars[CHOOSE k \in 1..Len(upperChars) : upperChars[k] = ch]
    ELSE ch

\* `${n}` for an integer n.
RECURSIVE natText(_)
natText(n) ==
    IF n < 10 THEN <<digitChars[n + 1]>>
    ELSE natText(n \div 10) \o <<digitChars[(n % 10) + 1]>>

numText(n) == IF n < 0 THEN <<"-">> \o natText(-n) ELSE natText(n)

\* algebraic with the rank counted from the top.
algebraic_topDown(i) == <<files[(i % 8) + 1]>> \o numText((i \div 8) + 1)

algebraic(i) == <<files[(i % 8) + 1]>> \o numText(8 - (i \div 8))

RECURSIVE rankText(_, _, _, _)
rankText(s, r, f, emptyCount) ==
    LET p == s.board[toIndex(r, f)]
        flush == IF emptyCount # 0 THEN numText(emptyCount) ELSE <<>>
    IN  IF f = 8 THEN flush
        ELSE IF p = Null THEN rankText(s, r, f + 1, emptyCount + 1)
        ELSE flush \o <<IF p.c = "w" THEN p.t ELSE toLowerCase(p.t)>>
                 \o rankText(s, r, f + 1, 0)

RECURSIVE placementText(_, _)
placementText(s, r) ==
    IF r = 8 THEN <<>>
    ELSE rankText(s, r, 0, 0) \o (IF r = 7 THEN <<>> ELSE <<"/">>)
            \o placementText(s, r + 1)

toFEN(s) ==
    LET castle == IF s.castleRight # <<>> THEN s.castleRight ELSE <<"-">>
        ep == IF s.ep # NoSq /\ s.ep # 0 THEN algebraic(s.ep) ELSE <<"-">>
    IN  placementText(s, 0) \o <<" ">> \o <<s.turn>> \o <<" ">> \o castle
            \o <<" ">> \o ep \o <<" ">> \o numText(s.halfmove)
            \o <<" ">> \o numText(s.fullmove)

\* The value of a destructured field that the input does not have.
Undefined == <<"undefined">>

RECURSIVE trimStart(_)
trimStart(txt) ==
    IF txt # <<>> /\ Head(txt) = " " THEN trimStart(Tail(txt)) ELSE txt

RECURSIVE trimEnd(_)
trimEnd(txt) ==
    IF txt # <<>> /\ txt[Len(txt)] = " "
    THEN trimEnd(SubSeq(txt, 1, Len(txt) - 1)) ELSE txt

trim(txt) == trimEnd(trimStart(txt))

\* txt.split(sep) for a one-character separator; with collapse, a run of
\* separators counts as one (the /\s+/ pattern).
RECURSIVE splitFrom(_, _, _, _, _)
splitFrom(txt, k, cur, sep, collapse) ==
    IF k > Len(txt) THEN <<cur>>
    ELSE IF txt[k] = sep
         THEN IF collapse /\ k > 1 /\ txt[k - 1] = sep
              THEN splitFrom(txt, k + 1, cur, sep, collapse)
              ELSE <<cur>> \o splitFrom(txt, k + 1, <<>>, sep, collapse)
    ELSE splitFrom(txt, k + 1, Append(cur, txt[k]), sep, collapse)

fieldAt(parts, k) == IF k <= Len(parts) THEN parts[k] ELSE Undefined

\* Number(tok) for tokens made of a sign, digits and letters that start no
\* numeric literal: an optionally signed run of digits, anything else NaN.
RECURSIVE digitsValue(_, _)
digitsValue(tok, acc) ==
    IF tok = <<>> THEN acc
    ELSE digitsValue(Tail(tok), acc * 10 + digitValue(Head(tok)))

Number(tok) ==
    LET body == IF tok # <<>> /\ Head(tok) \in {"-", "+"} THEN Tail(tok) ELSE tok
        neg == tok # <<>> /\ Head(tok) = "-"
    IN  IF tok = Undefined \/ body = <<>>
            \/ \E k \in 1..Len(body) : ~isDigit(body[k])
        THEN [nan |-> TRUE, v |-> 0]
        ELSE [nan |-> FALSE,
              v |-> IF neg THEN -digitsValue(body, 0) ELSE digitsValue(body, 0)]

\* Number(x) || dflt
orElse(n, dflt) == IF n.nan \/ n.v = 0 THEN dflt ELSE n.v

indexOf(str, ch) ==
    IF \E k \in 1..Len(str) : str[k] = ch
    THEN (CHOOSE k \in 1..Len(str) : str[k] = ch) - 1
    ELSE -1

\* A square value that is not a number (NaN).
NaNSq == -2

algebraicToIndex(sq) ==
    LET r == Number(Tail(sq))
        f == indexOf(files, Head(sq))
    IN  IF sq = <<>> \/ r.nan THEN NaNSq ELSE toIndex(8 - r.v, f)

\* The board after the characters k.. of one rank have been placed from
\* file f on; a write past square 63 lands outside the 64 squares read later.
RECURSIVE placeRank(_, _, _, _, _)
placeRank(b, r, f, str, k) ==
    IF k > Len(str) THEN b
    ELSE IF isDigit(str[k])
         THEN placeRank(b, r, f + digitValue(str[k]), str, k + 1)
    ELSE LET ch == str[k]
             piece == Pc(IF ch = toUpperCase(ch) THEN "w" ELSE "b",
                         toUpperCase(ch))
             i == toIndex(r, f)
         IN  placeRank(IF i \in Squares THEN [b EXCEPT ![i] = piece] ELSE b,
                       r, f + 1, str, k + 1)

RECURSIVE placeRanks(_, _, _)
placeRanks(b, ranks, r) ==
    IF r = 8 THEN b
    ELSE placeRanks(placeRank(b, r, 0, ranks[r + 1], 1), ranks, r + 1)

\* loadFEN(state, fen) mutates state; it has no validation of its own and
\* throws (a TypeError) only when it reaches a missing rank, before any
\* assignment, or a missing en-passant field, after board, turn and
\* castleRight have been assigned.
loadFEN(s, fen) ==
    LET parts == splitFrom(trim(fen), 1, <<>>, " ", TRUE)
        placement == fieldAt(parts, 1)
        active == fieldAt(parts, 2)
        castleRight == fieldAt(parts, 3)
        ep == fieldAt(parts, 4)
        half == fieldAt(parts, 5)
        full == fieldAt(parts, 6)
        ranks == splitFrom(placement, 1, <<>>, "/", FALSE)
        s3 == [s EXCEPT
                !.board = placeRanks([i \in Squares |-> Null], ranks, 0),
                !.turn = IF Len(active) = 1 THEN active[1] ELSE "?",
                !.castleRight = IF castleRight = <<"-">> THEN <<>>
                                ELSE castleRight]
    IN  IF Len(ranks) < 8 THEN [ok |-> FALSE, state |-> s]
        ELSE IF ep = Undefined THEN [ok |-> FALSE, state |-> s3]
        ELSE [ok |-> TRUE,
              state |->
                [s3 EXCEPT
                    !.ep = IF ep = <<"-">> THEN NoSq ELSE algebraicToIndex(ep),
                    !.halfmove = orElse(Number(half), 0),
                    !.fullmove = orElse(Number(full), 1)]]

(***************************************************************************)
(* The game: a position loaded from FEN (the reset and Load FEN buttons),  *)
(* then moves drawn from allLegalMoves and applied with applyMovePure, as  *)
(* the random playout and the search do.                                   *)
(***************************************************************************)
initialState ==
    [board |-> makeInitialBoard, turn |-> "w",
     castleRight |-> <<"K", "Q", "k", "q">>, ep |-> NoSq,
     halfmove |-> 0, fullmove |-> 1]

\* r3k2r/p6p/8/8/8/8/P7/R3K3 w Qkq - 0 1 : castling rights on both sides
fenCastle ==
    <<"r", "3", "k", "2", "r", "/", "p", "6", "p", "/", "8", "/", "8", "/",
      "8", "/", "8", "/", "P", "7", "/", "R", "3", "K", "3", " ", "w", " ",
      "Q", "k", "q", " ", "-", " ", "0", " ", "1">>

\* 8/6p1/7p/5p1P/7K/8/6k1/8 b - - 0 1 : g7g5 checks the king on h4; h5xg6 e.p. is the only reply
fenEpCheck ==
    <<"8", "/", "6", "p", "1", "/", "7", "p", "/", "5", "p", "1", "P", "/",
      "7", "K", "/", "8", "/", "6", "k", "1", "/", "8", " ", "b", " ", "-",
      " ", "-", " ", "0", " ", "1">>

\* r3k3/pP6/8/8/8/8/8/4K3 w q - 5 40 : a pawn about to promote, by capture on a8 or by push
fenPromo ==
    <<"r", "3", "k", "3", "/", "p", "P", "6", "/", "8", "/", "8", "/", "8",
      "/", "8", "/", "8", "/", "4", "K", "3", " ", "w", " ", "q", " ", "-",
      " ", "5", " ", "4", "0">>

\* 4k3/4r3/8/8/3p4/8/2P1N3/4K3 w - - 7 30 : a knight pinned on the e-file; c2c4 allows d4xc3 e.p.
fenPin ==
    <<"4", "k", "3", "/", "4", "r", "3", "/", "8", "/", "8", "/", "3", "p",
      "4", "/", "8", "/", "2", "P", "1", "N", "3", "/", "4", "K", "3", " ",
      "w", " ", "-", " ", "-", " ", "7", " ", "3", "0">>

StartFENs == {fenCastle, fenEpCheck, fenPromo, fenPin}

noMove == [from |-> NoSq, to |-> NoSq]

fenIdle == [phase |-> "idle"]

InitGame ==
    /\ state \in {initialState} \cup
                 {loadFEN(initialState, fen).state : fen \in StartFENs}
    /\ plies = 0
    /\ last = noMove
    /\ fenIO = fenIdle
    /\ zob = <<>>
    /\ table = <<>>
    /\ ttLast = <<>>
    /\ pick = <<>>
    /\ probe = <<>>
    /\ search = <<>>
    /\ evl = <<>>
    /\ selfplay = <<>>
    /\ calls = <<>>
    /\ book = <<>>

pieceCount(s) == Cardinality({i \in Squares : s.board[i] # Null})

\* The opening position, with all 32 pieces, is explored less deep than the
\* endgame positions.
pliesAllowed(s) == IF pieceCount(s) > 16 THEN MaxOpeningPlies ELSE MaxPlies

\* One ply: pick a move of the legal list, apply it to the position.
PlayMove ==
    /\ plies < pliesAllowed(state)
    /\ \E m \in allLegalMoves(state, state.turn) :
        /\ state' = applyMovePure(cloneState(state), m[1], m[2])
        /\ last' = [from |-> m[1], to |-> m[2]]
    /\ plies' = plies + 1
    /\ UNCHANGED <<fenIO, zob, table, ttLast, pick,
                 probe, search, evl, book, selfplay, calls>>

NextGame == PlayMove

Spec == InitGame /\ [][NextGame]_vars

(***************************************************************************)
(* Properties of the move generator                                        *)
(***************************************************************************)
legalNow == allLegalMoves(state, state.turn)

\* C1: every move allLegalMoves returns for the side to move, once applied
\* with applyMovePure, leaves the mover's own king on a square the opponent
\* does not attack.
C1_Soundness ==
    \A m \in legalNow :
        ~inCheck(applyMovePure(cloneState(state), m[1], m[2]), state.turn)

\* A position reached by play in which the side to move is in check and
\* the generator still returns moves.
C1_Witness ==
    /\ plies > 0
    /\ inCheck(state, state.turn)
    /\ legalNow # {}
    /\ \E i \in Squares : \E to \in generateMoves(state, i) :
            /\ state.board[i].c = state.turn
            /\ <<i, to>> \notin legalNow

\* C2: the check/pin-aware allLegalMoves returns exactly the moves that the
\* brute enumeration (every pseudo move filtered by do/undo only) returns.
C2_Completeness == legalNow = allLegalMovesRef(state, state.turn)

\* C4: for every position reached by legal moves, loadFEN(toFEN(pos)) has
\* the same board, side to move, castling rights, en-passant square,
\* halfmove clock and fullmove number as pos.
C4_FenRoundTrip ==
    LET r == loadFEN(initialState, toFEN(state))
    IN  /\ r.ok
        /\ r.state.board = state.board
        /\ r.state.turn = state.turn
        /\ r.state.castleRight = state.castleRight
        /\ r.state.ep = state.ep
        /\ r.state.halfmove = state.halfmove
        /\ r.state.fullmove = state.fullmove

\* A position reached by play that differs from the one first loaded in
\* its en-passant square, castling rights and clocks.
C4_Witness ==
    /\ plies > 0
    /\ state.ep # NoSq
    /\ state.castleRight # <<>>
    /\ loadFEN(initialState, toFEN(state)).ok

\* C6: each castling right K, Q, k, q is present only if that colour's
\* king stands on e1/e8 and its rook on the corresponding corner.
C6_CastlingRights ==
    /\ includes(state.castleRight, "K") =>
            /\ state.board[60] = Pc("w", "K")
            /\ state.board[63] = Pc("w", "R")
    /\ includes(state.castleRight, "Q") =>
            /\ state.board[60] = Pc("w", "K")
            /\ state.board[56] = Pc("w", "R")
    /\ includes(state.castleRight, "k") =>
            /\ state.board[4] = Pc("b", "K")
            /\ state.board[7] = Pc("b", "R")
    /\ includes(state.castleRight, "q") =>
            /\ state.board[4] = Pc("b", "K")
            /\ state.board[0] = Pc("b", "R")

\* A rook has left its corner while its king stayed: that right is gone,
\* the other side's rights remain.
C6_Witness ==
    /\ plies > 0
    /\ state.board[60] = Pc("w", "K")
    /\ state.board[56] # Pc("w", "R")
    /\ ~includes(state.castleRight, "Q")
    /\ includes(state.castleRight, "k")

\* C7: after every applyMovePure the en-passant square is set if and only
\* if the move just applied was a two-square pawn push, and then it is the
\* square the pawn skipped over.
C7_EnPassant ==
    last # noMove =>
        LET pushed == /\ state.board[last.to].t = "P"
                      /\ last.from % 8 = last.to % 8
                      /\ Abs((last.to \div 8) - (last.from \div 8)) = 2
        IN  /\ (state.ep # NoSq) <=> pushed
            /\ pushed => /\ state.ep % 8 = last.from % 8
                         /\ 2 * (state.ep \div 8) =
                                (last.from \div 8) + (last.to \div 8)

\* A two-square push has just been applied.
C7_Witness ==
    /\ last # noMove
    /\ state.board[last.to].t = "P"
    /\ Abs(last.to - last.from) = 16
    /\ state.ep # NoSq

\* The two-square king slides kingMoves generates for the king of a colour.
castlingsOf(s, c) ==
    LET k == findKing(s, c)
    IN  IF k = NoSq THEN {}
        ELSE {<<k, to>> : to \in {t \in kingMoves(s, k) :
                                    Abs((t % 8) - (k % 8)) = 2}}

\* C8: a castling move is generated only when the king is on its original
\* square with the right present, every square between king and rook is
\* empty, the king's origin, pass-through and destination squares are not
\* attacked by the opponent, and a rook of the colour is on the corner.
C8_CastlingGuard ==
    \A c \in {"w", "b"} : \A m \in castlingsOf(state, c) :
        LET row == IF c = "w" THEN 7 ELSE 0
            short == m[2] % 8 = 6
            right == IF c = "w" THEN (IF short THEN "K" ELSE "Q")
                     ELSE (IF short THEN "k" ELSE "q")
            between == IF short THEN {5, 6} ELSE {1, 2, 3}
            path == IF short THEN {4, 5, 6} ELSE {4, 3, 2}
            rookFile == IF short THEN 7 ELSE 0
        IN  /\ m[1] = toIndex(row, 4)
            /\ m[2] \in {toIndex(row, 6), toIndex(row, 2)}
            /\ includes(state.castleRight, right)
            /\ \A f \in between : state.board[toIndex(row, f)] = Null
            /\ \A f \in path :
                    ~isSquareAttacked(state, toIndex(row, f), Other(c))
            /\ state.board[toIndex(row, rookFile)] = Pc(c, "R")

\* A castling move is generated in a position reached by play.
C8_Witness ==
    /\ plies > 0
    /\ castlingsOf(state, state.turn) # {}


(***************************************************************************)
(* main.js: the Load FEN button. The text of the input box is trimmed; an  *)
(* empty text is ignored, any other text goes to loadFEN, and only an      *)
(* exception thrown by loadFEN raises the "Invalid FEN" alert.             *)
(***************************************************************************)
MaxFenFields == 6

join(a, sep, b) == a \o sep \o b

RECURSIVE joinAll(_, _)
joinAll(fields, sep) ==
    IF Len(fields) = 0 THEN <<>>
    ELSE IF Len(fields) = 1 THEN fields[1]
    ELSE join(fields[1], sep, joinAll(Tail(fields), sep))

\* 4k3/8/8/8/8/8/8/4K3
placementKings ==
    <<"4", "k", "3", "/", "8", "/", "8", "/", "8", "/", "8", "/", "8", "/",
      "8", "/", "4", "K", "3">>

\* 4k3/8/8/8/8/8/8/4Kz2 : a character that names no piece
placementUnknown ==
    <<"4", "k", "3", "/", "8", "/", "8", "/", "8", "/", "8", "/", "8", "/",
      "8", "/", "4", "K", "z", "2">>

\* 4k3/8/8/8/8/8/4K3 : seven ranks
placementShort ==
    <<"4", "k", "3", "/", "8", "/", "8", "/", "8", "/", "8", "/", "8", "/",
      "4", "K", "3">>

Placements == {placementKings, placementUnknown, placementShort}

EpTexts == {<<"-">>, <<"e", "3">>}

HalfTexts == {<<"0">>, <<"1", "2">>, <<"z">>, <<"-">>}

FullTexts == {<<"1">>, <<"z">>}

\* The field lists typed into the box: up to MaxFenFields fields, cut short
\* after any field.
FenFieldLists ==
    LET full == {<<pl, <<"w">>, <<"-">>, e, h, f>> \o
                    [k \in 1..(MaxFenFields - 6) |-> <<"x">>] :
                 pl \in Placements, e \in EpTexts,
                 h \in HalfTexts, f \in FullTexts}
    IN  {SubSeq(l, 1, n) : l \in full, n \in 0..MaxFenFields}

Separators == {<<" ">>, <<" ", " ">>}

FenInputs ==
    {lead \o joinAll(l, sep) :
        lead \in {<<>>, <<" ">>}, l \in FenFieldLists, sep \in Separators}

InitFen ==
    /\ state = initialState
    /\ plies = 0
    /\ last = noMove
    /\ fenIO \in {[phase |-> "input", text |-> txt] : txt \in FenInputs}
    /\ zob = <<>>
    /\ table = <<>>
    /\ ttLast = <<>>
    /\ pick = <<>>
    /\ probe = <<>>
    /\ search = <<>>
    /\ evl = <<>>
    /\ selfplay = <<>>
    /\ calls = <<>>
    /\ book = <<>>

LoadFEN ==
    /\ fenIO.phase = "input"
    /\ LET fen == trim(fenIO.text)
           r == loadFEN(state, fen)
       IN  IF fen = <<>>
           THEN /\ fenIO' = [fenIO EXCEPT !.phase = "ignored"]
                /\ state' = state
           ELSE /\ fenIO' = [fenIO EXCEPT
                                !.phase = IF r.ok THEN "loaded" ELSE "alert"]
                /\ state' = r.state
    /\ UNCHANGED <<plies, last, zob, table, ttLast, pick,
                 probe, search, evl, book, selfplay, calls>>

NextFen == LoadFEN

SpecFen == InitFen /\ [][NextFen]_vars

placementChars ==
    {"P", "N", "B", "R", "Q", "K", "p", "n", "b", "r", "q", "k",
     "1", "2", "3", "4", "5", "6", "7", "8", "/"}

isIntegerText(tok) ==
    /\ tok # <<>>
    /\ \A k \in 1..Len(tok) : isDigit(tok[k])

\* The inputs the error taxonomy calls invalid.
invalidFen(txt) ==
    LET fields == splitFrom(trim(txt), 1, <<>>, " ", TRUE)
    IN  \/ Len(fields) < 6
        \/ \E k \in 1..Len(fields[1]) : fields[1][k] \notin placementChars
        \/ ~isIntegerText(fields[5])
        \/ ~isIntegerText(fields[6])

\* C5: an input with fewer than 6 fields, with a character in the piece
\* placement that is none of PNBRQKpnbrqk, 1-8 and '/', or with a
\* non-integer clock is reported as invalid and never loaded as a position.
C5_InvalidFenReported ==
    (fenIO.phase \in {"loaded", "alert"} /\ invalidFen(fenIO.text))
        => fenIO.phase = "alert"

\* ------------------------------------------------------------------
\* ai/book.js: the persistent root book. The map is kept as the sequence
\* of its records in key order (Object.keys: insertion order). A timestamp
\* (Date.now(), about 1.7 * 10^12) is kept as three limbs <<h, m, l>> with
\* value h * 2^32 + m * 2^16 + l.
\* ------------------------------------------------------------------
\* The cap on the number of records; 5000 in the source (book.js line 5),
\* scaled down here.
MAX_ENTRIES == 2

Limb == 65536

tsLess(a, b) ==
    \/ a[1] < b[1]
    \/ a[1] = b[1] /\ a[2] < b[2]
    \/ a[1] = b[1] /\ a[2] = b[2] /\ a[3] < b[3]

\* ts | 0: the low 32 bits read as a signed integer.
tsInt32(ts) ==
    IF ts[2] >= 32768 THEN (ts[2] - Limb) * Limb + ts[3]
    ELSE ts[2] * Limb + ts[3]

\* The comparator of the purge is negative, zero or positive as
\* (map[a].ts | 0) - (map[b].ts | 0) is.
RECURSIVE insertByTs(_, _)
insertByTs(r, sorted) ==
    IF sorted = <<>> THEN <<r>>
    ELSE IF tsInt32(r.ts) < tsInt32(Head(sorted).ts) THEN <<r>> \o sorted
    ELSE <<Head(sorted)>> \o insertByTs(r, Tail(sorted))

RECURSIVE sortByTs(_)
sortByTs(recs) ==
    IF recs = <<>> THEN <<>>
    ELSE insertByTs(recs[Len(recs)], sortByTs(SubSeq(recs, 1, Len(recs) - 1)))

bookGet(map, zhex) ==
    LET hits == {k \in DOMAIN map : map[k].key = zhex}
    IN  IF hits = {} THEN [key |-> ""] ELSE map[CHOOSE k \in hits : TRUE]

bookProbe(map, zhex, minDepth) ==
    LET rec == bookGet(map, zhex)
    IN  IF rec.key = "" THEN [key |-> ""]
        ELSE IF rec.depth < minDepth THEN [key |-> ""]
        ELSE rec

\* bookInsert: the new map and the keys the purge deleted.
bookInsert(map, zhex, depth, now) ==
    LET prev == bookGet(map, zhex)
        rec == [key |-> zhex, depth |-> depth, ts |-> now]
        assigned ==
            IF prev.key = "" THEN Append(map, rec)
            ELSE [k \in DOMAIN map |-> IF map[k].key = zhex THEN rec ELSE map[k]]
        keys == sortByTs(assigned)
        nTrim == Len(assigned) - MAX_ENTRIES
        deleted == IF Len(assigned) > MAX_ENTRIES
                   THEN {keys[i].key : i \in 1..nTrim} ELSE {}
    IN  IF zhex = "" THEN [map |-> map, called |-> FALSE]
        ELSE IF prev.key # "" /\ prev.depth >= depth
        THEN [map |-> map, called |-> FALSE]
        ELSE [map |-> SelectSeq(assigned, LAMBDA r : r.key \notin deleted),
              called |-> TRUE, assigned |-> assigned, deleted |-> deleted]

\* Readings of the clock, in increasing order: around the instant the low
\* 32 bits pass 2^31 and the instant they wrap to 0.
Times ==
    <<<<395, 32767, 65534>>, <<395, 32767, 65535>>, <<395, 32768, 0>>,
      <<395, 65535, 65535>>, <<396, 0, 0>>, <<396, 0, 1>>>>

(***************************************************************************)
(* ai/search.js: the root driver pickMove.  The sub-searches it awaits     *)
(* (alphaBeta) are abstracted to the score they return and the time they   *)
(* take; the driver itself is modelled statement by statement.             *)
(***************************************************************************)
MATE == 100000

Infinity == 1000000000

ASP_WIDE == 200

GUARD_MS == 140

ROOT_CHUNK == 10

MinBudgetMs == 50

MateThreshold == 99000

\* timeMs = null
NoTime == -1

VAL(t) ==
    IF t = "P" THEN 100 ELSE IF t = "N" THEN 320 ELSE IF t = "B" THEN 330
    ELSE IF t = "R" THEN 500 ELSE IF t = "Q" THEN 900 ELSE 0

isEnPassantMove(s, from, to) ==
    LET mover == s.board[from]
        dir == IF mover.c = "w" THEN -1 ELSE 1
        capIdx == toIndex((to \div 8) - dir, to % 8)
    IN  /\ mover # Null /\ mover.t = "P"
        /\ s.ep # NoSq /\ to = s.ep
        /\ Abs((to % 8) - (from % 8)) = 1
        /\ capIdx \in Squares
        /\ s.board[capIdx] # Null
        /\ s.board[capIdx].t = "P"
        /\ s.board[capIdx].c # mover.c

isPromotionMove(s, from, to) ==
    LET p == s.board[from]
    IN  /\ p # Null /\ p.t = "P"
        /\ \/ (p.c = "w" /\ to \div 8 = 0)
           \/ (p.c = "b" /\ to \div 8 = 7)

isCastleMove(s, from, to) ==
    /\ s.board[from] # Null /\ s.board[from].t = "K"
    /\ Abs((to % 8) - (from % 8)) = 2

\* The ordering score annotateMoves gives a move in its light variant, with
\* empty killer slots and a zero history table; ttBest is <<>> when absent.
orderScore(s, from, to, ttBest) ==
    LET mover == s.board[from]
        target == s.board[to]
        epCap == isEnPassantMove(s, from, to)
        vv == IF epCap THEN VAL("P") ELSE VAL(target.t)
        isCap == target # Null \/ epCap
        quiet == ~isCap /\ ~isPromotionMove(s, from, to)
                    /\ ~isCastleMove(s, from, to)
        \* |r - 3.5| + |f - 3.5|, computed on doubled values
        dist == (Abs(2 * (to \div 8) - 7) + Abs(2 * (to % 8) - 7)) \div 2
    IN  (IF isCap THEN 10 * vv - VAL(mover.t) ELSE 0)
        + (IF quiet THEN 8 - dist ELSE 0)
        + (IF ttBest # <<>> /\ ttBest = <<from, to>> THEN 1000000000 ELSE 0)

\* The moves sorted by descending score; the sort is stable, so moves of
\* equal score stay in generation order (ascending origin square).
RECURSIVE annotateMoves(_, _, _)
annotateMoves(s, moves, ttBest) ==
    IF moves = {} THEN <<>>
    ELSE LET os(m) == orderScore(s, m[1], m[2], ttBest)
             first(a, b) ==
                \/ os(a) > os(b)
                \/ os(a) = os(b) /\ a[1] < b[1]
                \/ os(a) = os(b) /\ a[1] = b[1] /\ a[2] < b[2]
             m == CHOOSE x \in moves : \A y \in moves \ {x} : first(x, y)
         IN  <<m>> \o annotateMoves(s, moves \ {m}, ttBest)

\* moves.sort(...) with a comparator that puts bestMove first and holds
\* every other pair equal.
bestFirst(moves, bestMove) ==
    <<bestMove>> \o SelectSeq(moves, LAMBDA m : m # bestMove)

Min(a, b) == IF a < b THEN a ELSE b

Max(a, b) == IF a > b THEN a ELSE b

\* 8/8/7p/5ppP/7K/8/6k1/8 w - g6 0 2 : fenEpCheck after g7g5: White is in check, h5xg6 e.p. is legal
fenEpOnly ==
    <<"8", "/", "8", "/", "7", "p", "/", "5", "p", "p", "P", "/", "7", "K",
      "/", "8", "/", "6", "k", "1", "/", "8", " ", "w", " ", "-", " ", "g",
      "6", " ", "0", " ", "2">>

\* 7k/5Q2/6K1/8/8/8/8/8 b - - 0 1 : Black has no move and is not in check
fenStalemate ==
    <<"7", "k", "/", "5", "Q", "2", "/", "6", "K", "1", "/", "8", "/", "8",
      "/", "8", "/", "8", "/", "8", " ", "b", " ", "-", " ", "-", " ", "0",
      " ", "1">>

\* 7k/8/8/8/8/8/7P/7K w - - 0 1 : four legal moves
fenKP ==
    <<"7", "k", "/", "8", "/", "8", "/", "8", "/", "8", "/", "8", "/", "7",
      "P", "/", "7", "K", " ", "w", " ", "-", " ", "-", " ", "0", " ", "1">>

\* 7k/7p/8/8/8/8/8/7K b - - 0 1 : Black to move, four legal moves
fenKPb ==
    <<"7", "k", "/", "7", "p", "/", "8", "/", "8", "/", "8", "/", "8", "/",
      "8", "/", "7", "K", " ", "b", " ", "-", " ", "-", " ", "0", " ", "1">>

\* 7k/8/8/8/8/8/8/R3K3 w - - 0 1 : fifteen legal moves
fenRook ==
    <<"7", "k", "/", "8", "/", "8", "/", "8", "/", "8", "/", "8", "/", "8",
      "/", "R", "3", "K", "3", " ", "w", " ", "-", " ", "-", " ", "0", " ",
      "1">>

PickFENs == {fenEpOnly, fenStalemate, fenKP, fenKPb, fenRook}

\* Bounds of the search runs explored.
MaxDepthArg == 2

MaxStartMs == 1

TimeArgs == {NoTime, 0, 300}

\* What one awaited alphaBeta call may take (ms) and return. The fields
\* searched (the root moves alphaBeta was launched on in the iteration) and
\* cut (the root loop was left by one of its two breaks) of the record
\* pick are history, not variables of the code.
Elapsed == {0, 200}

RootScores == {-(MATE - 98), -30, 25, MATE - 98}

pickIdle ==
    [pc |-> "idle", now |-> 0, DEADLINE |-> Infinity, prevDeadline |-> Infinity,
     maxDepth |-> 0, timeMs |-> NoTime, moves |-> <<>>, bestMove |-> <<>>,
     bestScore |-> 0, lastScore |-> 0, finishedDepth |-> 0, d |-> 0, i |-> 0,
     localBestMove |-> <<>>, localBestScore |-> 0,
     alphaWin |-> -Infinity, betaWin |-> Infinity, ret |-> <<>>,
     searched |-> {}, cut |-> FALSE]

InitPick ==
    /\ state \in {loadFEN(initialState, fen).state : fen \in PickFENs}
    /\ plies = 0
    /\ last = noMove
    /\ fenIO = fenIdle
    /\ zob = <<>>
    /\ table = <<>>
    /\ ttLast = <<>>
    /\ \E t \in 0..MaxStartMs : pick = [pickIdle EXCEPT !.now = t]
    /\ probe = <<>>
    /\ search = <<>>
    /\ evl = <<>>
    /\ selfplay = <<>>
    /\ calls = <<>>
    /\ book = <<>>

timed == pick.timeMs # NoTime

timeExpired == pick.now >= pick.DEADLINE

player == state.turn

\* Lines 484-533: set the deadline, collect and order the root moves.
PickStart ==
    /\ pick.pc = "idle"
    /\ \E maxDepth \in 1..MaxDepthArg, timeMs \in TimeArgs :
        LET deadline == IF timeMs # NoTime
                        THEN pick.now + Max(MinBudgetMs, timeMs) ELSE Infinity
            moves == allLegalMoves(state, player)
            ordered == annotateMoves(state, moves, <<>>)
        IN  IF moves = {}
            THEN pick' = [pick EXCEPT !.pc = "done", !.maxDepth = maxDepth,
                            !.timeMs = timeMs, !.prevDeadline = pick.DEADLINE,
                            !.ret = <<>>]
            ELSE pick' = [pick EXCEPT
                            !.pc = "iter", !.maxDepth = maxDepth,
                            !.timeMs = timeMs, !.prevDeadline = pick.DEADLINE,
                            !.DEADLINE = deadline, !.moves = ordered,
                            !.bestMove = ordered[1],
                            !.bestScore = IF player = "w" THEN -MATE ELSE MATE,
                            !.lastScore = 0, !.finishedDepth = 0, !.d = 1]
    /\ UNCHANGED <<state, plies, last, fenIO, zob, table, ttLast,
                 probe, search, evl, book, selfplay, calls>>

\* Lines 535-548: the head of one iteration of the depth loop.
PickIterate ==
    /\ pick.pc = "iter"
    /\ IF pick.d > pick.maxDepth \/ (timed /\ timeExpired)
       THEN pick' = [pick EXCEPT !.pc = "finish"]
       ELSE LET asp == pick.d >= 5
            IN  pick' = [pick EXCEPT
                    !.pc = "move", !.i = 0, !.localBestMove = <<>>,
                    !.searched = {}, !.cut = FALSE,
                    !.localBestScore = IF player = "w" THEN -MATE ELSE MATE,
                    !.alphaWin = IF asp THEN pick.lastScore - ASP_WIDE
                                 ELSE -Infinity,
                    !.betaWin = IF asp THEN pick.lastScore + ASP_WIDE
                                ELSE Infinity]
    /\ UNCHANGED <<state, plies, last, fenIO, zob, table, ttLast,
                 probe, search, evl, book, selfplay, calls>>

\* Lines 549-576: one root move, searched on a clone of the position.
PickSearchMove ==
    /\ pick.pc = "move"
    /\ LET limit == Min(Len(pick.moves), ROOT_CHUNK)
       IN  IF pick.i >= limit
           THEN pick' = [pick EXCEPT !.pc = "after"]
           ELSE IF \/ (timed /\ timeExpired)
                   \/ (timed /\ pick.DEADLINE - pick.now < GUARD_MS)
           THEN pick' = [pick EXCEPT !.pc = "after", !.cut = TRUE]
           ELSE \E e1 \in Elapsed, s1 \in RootScores,
                   e2 \in Elapsed, s2 \in RootScores :
                LET mv == pick.moves[pick.i + 1]
                    t1 == IF timed THEN pick.now + e1 ELSE pick.now
                    again == /\ timed
                             /\ ~(t1 >= pick.DEADLINE)
                             /\ (s1 <= pick.alphaWin \/ s1 >= pick.betaWin)
                    score == IF again THEN s2 ELSE s1
                    t2 == IF again THEN t1 + e2 ELSE t1
                    better == IF player = "w" THEN score > pick.localBestScore
                              ELSE score < pick.localBestScore
                IN  /\ (~again) => (e2 = 0 /\ s2 = s1)
                    /\ pick' = [pick EXCEPT
                            !.now = t2, !.i = pick.i + 1,
                            !.searched = @ \cup {mv},
                            !.localBestScore = IF better THEN score ELSE @,
                            !.localBestMove = IF better THEN mv ELSE @]
    /\ UNCHANGED <<state, plies, last, fenIO, zob, table, ttLast,
                 probe, search, evl, book, selfplay, calls>>

\* Lines 578-595: the tail of the iteration, where its result is committed.
PickCommit ==
    /\ pick.pc = "after"
    /\ IF timed /\ timeExpired
       THEN pick' = [pick EXCEPT !.pc = "finish"]
       ELSE IF pick.localBestMove # <<>>
       THEN pick' = [pick EXCEPT
                !.bestMove = pick.localBestMove,
                !.bestScore = pick.localBestScore,
                !.lastScore = pick.localBestScore,
                !.finishedDepth = pick.d,
                !.moves = bestFirst(pick.moves, pick.localBestMove),
                !.d = IF Abs(pick.localBestScore) > MateThreshold
                      THEN @ ELSE @ + 1,
                !.pc = IF Abs(pick.localBestScore) > MateThreshold
                       THEN "finish" ELSE "iter"]
       ELSE pick' = [pick EXCEPT !.d = @ + 1, !.pc = "iter"]
    /\ UNCHANGED <<state, plies, last, fenIO, zob, table, ttLast,
                 probe, search, evl, book, selfplay, calls>>

\* Lines 597-641: build the result, write the record of the position to
\* the book (lines 627-638; the book is the sequence of its records, each
\* with its key, depth and timestamp) and restore the module's deadline.
PickReturn ==
    /\ pick.pc = "finish"
    /\ pick' = [pick EXCEPT
            !.pc = "done",
            !.ret = IF pick.bestMove # <<>>
                    THEN <<pick.bestMove[1], pick.bestMove[2], pick.bestScore>>
                    ELSE <<>>,
            !.DEADLINE = pick.prevDeadline]
    /\ LET depthStored == IF pick.finishedDepth # 0 THEN pick.finishedDepth
                          ELSE pick.maxDepth
       IN  book' = bookInsert(book, "zkey", depthStored, Times[1]).map
    /\ UNCHANGED <<state, plies, last, fenIO, zob, table, ttLast,
                 probe, search, evl, selfplay, calls>>

NextPick ==
    \/ PickStart
    \/ PickIterate
    \/ PickSearchMove
    \/ PickCommit
    \/ PickReturn

SpecPick == InitPick /\ [][NextPick]_vars

\* C3: pickMove returns an absent result exactly when the side to move has
\* no legal move (no pseudo move that leaves its king unattacked), and any
\* move it returns is a member of allLegalMoves(position, side to move).
C3_PickMoveResult ==
    pick.pc = "done" =>
        /\ (pick.ret = <<>>) <=> (allLegalMovesRef(state, player) = {})
        /\ pick.ret # <<>> =>
                <<pick.ret[1], pick.ret[2]>> \in allLegalMoves(state, player)

\* C13: in an iteration that the deadline and the time guard did not cut
\* short, alphaBeta is launched on every legal root move.
C13_AllRootMoves ==
    (pick.pc = "after" /\ ~pick.cut)
        => pick.searched = allLegalMoves(state, player)

\* C14: the committed result (bestMove, bestScore, finishedDepth) changes
\* only at the end of an iteration whose root loop ran to its end; an
\* iteration left through the time guard or the deadline commits nothing.
C14_CommitComplete ==
    [][(/\ pick.pc = "after"
        /\ \/ pick'.finishedDepth # pick.finishedDepth
           \/ pick'.bestMove # pick.bestMove
           \/ pick'.bestScore # pick.bestScore)
            => ~pick.cut]_vars

(***************************************************************************)
(* ai/zobrist.js. The table ZOB holds one random 64-bit constant per       *)
(* (colour, type, square), per castling right, per en-passant file and one *)
(* for the side to move. A key is the XOR of some of them; it is kept here *)
(* as the set of constants XORed an odd number of times, so XOR is the     *)
(* symmetric difference and two keys are equal when the sets are.          *)
(***************************************************************************)
xor(h, z) == (h \ z) \cup (z \ h)

zobPiece(p, i) == {<<"pieces", p.c, toLowerCase(p.t), i>>}

zobCastle(k) == {<<"castle", k>>}

zobEpFile(f) == {<<"epFile", f>>}

zobSideToMove == {<<"sideToMove">>}

\* epFileIndexEffective that reports the file of every en-passant square.
epFileIndexEffective_anyEp(s) ==
    IF s.ep \notin Squares THEN -1 ELSE s.ep % 8

epFileIndexEffective(s) ==
    IF s.ep \notin Squares THEN -1
    ELSE LET r == s.ep \div 8
             f == s.ep % 8
             side == s.turn
             dr == IF side = "w" THEN 1 ELSE -1
             hit(nf) == /\ nf >= 0 /\ nf <= 7
                        /\ toIndex(r + dr, nf) \in Squares
                        /\ s.board[toIndex(r + dr, nf)] = Pc(side, "P")
         IN  IF hit(f - 1) \/ hit(f + 1) THEN f ELSE -1

hasCastleRight(castleRight, sym) ==
    IF castleRight = <<>> THEN FALSE ELSE includes(castleRight, sym)

\* The XOR of the piece constants over the occupied squares from i on
\* (empty squares are skipped).
RECURSIVE hashPieces(_, _, _)
hashPieces(s, i, h) ==
    LET occupied == {j \in i..63 : s.board[j] # Null}
        k == CHOOSE j \in occupied : \A j2 \in occupied : j <= j2
    IN  IF occupied = {} THEN h
        ELSE hashPieces(s, k + 1, xor(h, zobPiece(s.board[k], k)))

computeKey(s) ==
    LET h1 == hashPieces(s, 0, {})
        h2 == IF s.turn = "b" THEN xor(h1, zobSideToMove) ELSE h1
        h3 == IF hasCastleRight(s.castleRight, "K")
              THEN xor(h2, zobCastle(0)) ELSE h2
        h4 == IF hasCastleRight(s.castleRight, "Q")
              THEN xor(h3, zobCastle(1)) ELSE h3
        h5 == IF hasCastleRight(s.castleRight, "k")
              THEN xor(h4, zobCastle(2)) ELSE h4
        h6 == IF hasCastleRight(s.castleRight, "q")
              THEN xor(h5, zobCastle(3)) ELSE h5
        ef == epFileIndexEffective(s)
    IN  IF ef >= 0 THEN xor(h6, zobEpFile(ef)) ELSE h6

\* 4k3/8/8/pPp1p1p1/8/8/8/4K3 w - - 0 1 : b5 can take a or c en passant, nothing can take e or g
fenZobWhite ==
    <<"4", "k", "3", "/", "8", "/", "8", "/", "p", "P", "p", "1", "p", "1",
      "p", "1", "/", "8", "/", "8", "/", "8", "/", "4", "K", "3", " ", "w",
      " ", "-", " ", "-", " ", "0", " ", "1">>

\* 4k3/8/8/8/P1P1PpP1/8/8/4K3 b - - 0 1 : f4 can take e or g en passant, nothing can take a or c
fenZobBlack ==
    <<"4", "k", "3", "/", "8", "/", "8", "/", "8", "/", "P", "1", "P", "1",
      "P", "p", "P", "1", "/", "8", "/", "8", "/", "4", "K", "3", " ", "b",
      " ", "-", " ", "-", " ", "0", " ", "1">>

\* r3k2r/8/8/1pP2p1p/8/8/8/R3K2R w KQkq - 0 1 : c5 can take b, nothing can take f or h
fenZobCastle ==
    <<"r", "3", "k", "2", "r", "/", "8", "/", "8", "/", "1", "p", "P", "2",
      "p", "1", "p", "/", "8", "/", "8", "/", "8", "/", "R", "3", "K", "2",
      "R", " ", "w", " ", "K", "Q", "k", "q", " ", "-", " ", "0", " ", "1">>

\* 4k3/8/8/8/1p2P1P1/8/8/4K3 b - - 0 1 : no black pawn next to e4 or g4
fenZobNone ==
    <<"4", "k", "3", "/", "8", "/", "8", "/", "8", "/", "1", "p", "2", "P",
      "1", "P", "1", "/", "8", "/", "8", "/", "4", "K", "3", " ", "b", " ",
      "-", " ", "-", " ", "0", " ", "1">>

ZobFENs == {fenZobWhite, fenZobBlack, fenZobCastle, fenZobNone}

\* The en-passant squares a position can carry: none, or the square behind
\* an enemy pawn standing two ranks in front of its empty starting square.
epChoices(s) ==
    LET fwd == IF s.turn = "w" THEN 8 ELSE -8
        epRank == IF s.turn = "w" THEN 2 ELSE 5
    IN  {NoSq} \cup
        {e \in Squares :
            /\ e \div 8 = epRank
            /\ s.board[e] = Null
            /\ s.board[e - fwd] = Null
            /\ s.board[e + fwd] = Pc(Other(s.turn), "P")}

zobIdle == [phase |-> "idle"]

InitZob ==
    /\ state = initialState
    /\ plies = 0
    /\ last = noMove
    /\ fenIO = fenIdle
    /\ \E fen \in ZobFENs :
         LET s == loadFEN(initialState, fen).state
         IN  zob \in {[phase |-> "input", a |-> [s EXCEPT !.ep = ea],
                       b |-> [s EXCEPT !.ep = eb]] :
                      ea \in epChoices(s), eb \in epChoices(s)}
    /\ table = <<>>
    /\ ttLast = <<>>
    /\ pick = <<>>
    /\ probe = <<>>
    /\ search = <<>>
    /\ evl = <<>>
    /\ selfplay = <<>>
    /\ calls = <<>>
    /\ book = <<>>

HashBoth ==
    /\ zob.phase = "input"
    /\ zob' = [phase |-> "hashed", a |-> zob.a, b |-> zob.b,
               keyA |-> computeKey(zob.a), keyB |-> computeKey(zob.b)]
    /\ UNCHANGED <<state, plies, last, fenIO, table, ttLast, pick,
                 probe, search, evl, book, selfplay, calls>>

NextZob == HashBoth

SpecZob == InitZob /\ [][NextZob]_vars

\* No pawn of the side to move stands beside the pawn that was pushed.
noEpCapturer(s) ==
    \/ s.ep = NoSq
    \/ LET pushed == s.ep + (IF s.turn = "w" THEN 8 ELSE -8)
       IN  ~\E sq \in Squares :
                /\ sq \div 8 = pushed \div 8
                /\ Abs((sq % 8) - (pushed % 8)) = 1
                /\ s.board[sq] = Pc(s.turn, "P")

\* C9: two positions identical except for the en-passant square, in
\* neither of which a pawn of the side to move stands beside the pushed
\* pawn, have the same key.
C9_EpNeutral ==
    (/\ zob.phase = "hashed"
     /\ noEpCapturer(zob.a)
     /\ noEpCapturer(zob.b))
        => zob.keyA = zob.keyB

\* Two different en-passant squares, neither capturable, have been hashed.
C9_Witness ==
    /\ zob.phase = "hashed"
    /\ zob.a.ep # NoSq
    /\ zob.b.ep # NoSq
    /\ zob.a.ep # zob.b.ep
    /\ [zob.a EXCEPT !.ep = NoSq] = [zob.b EXCEPT !.ep = NoSq]
    /\ noEpCapturer(zob.a)
    /\ noEpCapturer(zob.b)
    /\ zob.keyA = zob.keyB

(***************************************************************************)
(* ai/tt.js: the fixed-size transposition table. A 64-bit key is kept as   *)
(* four 16-bit limbs <<k3, k2, k1, k0>>, most significant first. The table *)
(* is followed on the slots the keys of TTKeys index; a slot that was      *)
(* never written holds NoEntry.                                            *)
(***************************************************************************)
MaxTTDepth == 1

EXACT == 0

LOWER == 1

sizePow2 == 18

RECURSIVE bitXor(_, _)
bitXor(a, b) ==
    IF a = 0 THEN b
    ELSE IF b = 0 THEN a
    ELSE ((a + b) % 2) + 2 * bitXor(a \div 2, b \div 2)

RECURSIVE pow2(_)
pow2(n) == IF n = 0 THEN 1 ELSE 2 * pow2(n - 1)

\* x = key ^ (key >> 32) ^ (key >> 53), then the low sizePow2 bits of x.
\* key >> 32 moves limbs k3, k2 onto k1, k0; key >> 53 leaves the top 11
\* bits of k3 in limb 0.
_indexFor(keyBig) ==
    LET x1 == bitXor(keyBig[3], keyBig[1])
        x0 == bitXor(bitXor(keyBig[4], keyBig[2]), keyBig[1] \div 32)
    IN  (x1 % pow2(sizePow2 - 16)) * Limb + x0

NoEntry == [key |-> <<>>, depth |-> 0, flag |-> 0, score |-> 0,
            bestMove |-> <<>>]

\* depth | 0 : the depths of the model are integers that fit 32 bits
toInt32(d) == d

\* The replacement test with a strict comparison of depths.
shouldReplace_strict(e, keyBig, depth) ==
    IF e = NoEntry THEN TRUE
    ELSE IF e.key # keyBig THEN toInt32(depth) > toInt32(e.depth)
    ELSE TRUE

shouldReplace(e, keyBig, depth) ==
    IF e = NoEntry THEN TRUE
    ELSE IF e.key # keyBig THEN toInt32(depth) >= toInt32(e.depth)
    ELSE TRUE

ttStore(tab, keyBig, depth, flag, score, bestMove) ==
    LET i == _indexFor(keyBig)
        e == tab[i]
    IN  IF ~shouldReplace(e, keyBig, depth) THEN tab
        ELSE [tab EXCEPT ![i] =
                [key |-> keyBig, depth |-> toInt32(depth), flag |-> flag,
                 score |-> score,
                 bestMove |-> IF bestMove # <<>>
                              THEN <<bestMove[1], bestMove[2]>> ELSE <<>>]]

\* What ttProbe returns: nothing (null), the stored entry itself, or an
\* object that holds a bestMove field only.
ttMiss == [kind |-> "null"]

\* ttProbe with the depth test on a hit left out.
ttProbe_anyDepth(tab, keyBig, reqDepth) ==
    LET e == tab[_indexFor(keyBig)]
    IN  IF e = NoEntry \/ e.key # keyBig THEN ttMiss
        ELSE [kind |-> "entry", key |-> e.key, depth |-> e.depth,
              flag |-> e.flag, score |-> e.score, bestMove |-> e.bestMove]

ttProbe(tab, keyBig, reqDepth) ==
    LET e == tab[_indexFor(keyBig)]
    IN  IF e = NoEntry \/ e.key # keyBig THEN ttMiss
        ELSE IF toInt32(e.depth) >= toInt32(reqDepth)
        THEN [kind |-> "entry", key |-> e.key, depth |-> e.depth,
              flag |-> e.flag, score |-> e.score, bestMove |-> e.bestMove]
        ELSE [kind |-> "hint", bestMove |-> e.bestMove]

noProbe == [key |-> <<>>]

\* Three keys that share slot 5 - the second through the masked-off bits,
\* the third through the bits mixed in from the upper half - and one key
\* of slot 6.
TTKeys == {<<0, 0, 0, 5>>, <<0, 0, 4, 5>>, <<0, 5, 0, 0>>, <<0, 0, 0, 6>>}

TTSlots == {_indexFor(k) : k \in TTKeys}

TTDepths == 0..MaxTTDepth

TTFlags == {EXACT, LOWER}

TTScores == {20}

TTMoves == {<<>>, <<52, 36>>}

ttEmpty == [i \in TTSlots |-> NoEntry]

noStore == [key |-> <<>>]

InitTT ==
    /\ state = initialState
    /\ plies = 0
    /\ last = noMove
    /\ fenIO = fenIdle
    /\ zob = <<>>
    /\ table = ttEmpty
    /\ ttLast = noStore
    /\ pick = <<>>
    /\ probe = noProbe
    /\ search = <<>>
    /\ evl = <<>>
    /\ selfplay = <<>>
    /\ calls = <<>>
    /\ book = <<>>

TTStore ==
    /\ \E keyBig \in TTKeys, depth \in TTDepths, flag \in TTFlags,
          score \in TTScores, bestMove \in TTMoves :
         /\ table' = ttStore(table, keyBig, depth, flag, score, bestMove)
         /\ ttLast' = [key |-> keyBig, depth |-> depth, flag |-> flag,
                       score |-> score, bestMove |-> bestMove,
                       before |-> table]
    /\ probe' = noProbe
    /\ UNCHANGED <<state, plies, last, fenIO, zob, pick, search, evl, book,
                  selfplay, calls>>

TTProbe ==
    /\ \E keyBig \in TTKeys, reqDepth \in TTDepths :
         probe' = [key |-> keyBig, reqDepth |-> reqDepth,
                   result |-> ttProbe(table, keyBig, reqDepth),
                   before |-> table]
    /\ ttLast' = noStore
    /\ UNCHANGED <<state, plies, last, fenIO, zob, table, pick, search, evl,
                   book, selfplay, calls>>

TTClear ==
    /\ table # ttEmpty
    /\ table' = ttEmpty
    /\ ttLast' = noStore
    /\ probe' = noProbe
    /\ UNCHANGED <<state, plies, last, fenIO, zob, pick, search, evl, book,
                  selfplay, calls>>

NextTT == TTStore \/ TTProbe \/ TTClear

SpecTT == InitTT /\ [][NextTT]_vars

\* C10: a store into an empty slot writes; a store of the key already in
\* the slot overwrites it whatever the depths; a store of another key
\* writes if and only if its depth is >= the stored depth and otherwise
\* leaves the slot unchanged.
C10_Replacement ==
    ttLast # noStore =>
        LET i == _indexFor(ttLast.key)
            e == ttLast.before[i]
            new == [key |-> ttLast.key, depth |-> ttLast.depth,
                    flag |-> ttLast.flag, score |-> ttLast.score,
                    bestMove |-> ttLast.bestMove]
            written == table[i] = new
        IN  /\ \A j \in TTSlots \ {i} : table[j] = ttLast.before[j]
            /\ e = NoEntry => written
            /\ (e # NoEntry /\ e.key = ttLast.key) => written
            /\ (e # NoEntry /\ e.key # ttLast.key) =>
                    /\ (ttLast.depth >= e.depth) => written
                    /\ (ttLast.depth < e.depth) => table[i] = e

\* A shallower store of another key has just been refused.
C10_Witness ==
    /\ ttLast # noStore
    /\ LET e == ttLast.before[_indexFor(ttLast.key)]
       IN  /\ e # NoEntry
           /\ e.key # ttLast.key
           /\ ttLast.depth < e.depth
           /\ table = ttLast.before

\* C11: ttProbe(key, d) returns the full stored entry if and only if the
\* slot holds that key at a depth >= d; with the key at a smaller depth it
\* returns the best-move hint alone, without flag or score; with an empty
\* slot or another key it returns nothing; the table is never changed.
C11_Probe ==
    probe # noProbe =>
        LET e == probe.before[_indexFor(probe.key)]
            hit == e # NoEntry /\ e.key = probe.key
            r == probe.result
        IN  /\ (r.kind = "entry") <=> (hit /\ e.depth >= probe.reqDepth)
            /\ r.kind = "entry" =>
                    /\ r.key = e.key /\ r.depth = e.depth /\ r.flag = e.flag
                    /\ r.score = e.score /\ r.bestMove = e.bestMove
            /\ (hit /\ e.depth < probe.reqDepth) =>
                    /\ r.kind = "hint"
                    /\ DOMAIN r = {"kind", "bestMove"}
                    /\ r.bestMove = e.bestMove
            /\ ~hit => r = ttMiss
            /\ table = probe.before

\* A probe of a stored key at a depth above the stored one: the hint.
C11_Witness ==
    /\ probe # noProbe
    /\ probe.result.kind = "hint"
    /\ table[_indexFor(probe.key)].key = probe.key
    /\ table[_indexFor(probe.key)].depth < probe.reqDepth

(***************************************************************************)
(* ai/eval.js: the classical evaluator (material, piece-square tables,     *)
(* bishop pair, mobility, tempo), the one-hidden-layer network and getEval.*)
(***************************************************************************)
PST_P ==
    <<0, 0, 0, 0, 0, 0, 0, 0,
      50, 50, 50, 50, 50, 50, 50, 50,
      10, 10, 20, 30, 30, 20, 10, 10,
      5, 5, 10, 25, 25, 10, 5, 5,
      0, 0, 0, 20, 20, 0, 0, 0,
      5, -5, -10, 0, 0, -10, -5, 5,
      5, 10, 10, -20, -20, 10, 10, 5,
      0, 0, 0, 0, 0, 0, 0, 0>>

PST_N ==
    <<-50, -40, -30, -30, -30, -30, -40, -50,
      -40, -20, 0, 0, 0, 0, -20, -40,
      -30, 0, 10, 15, 15, 10, 0, -30,
      -30, 5, 15, 20, 20, 15, 5, -30,
      -30, 0, 15, 20, 20, 15, 0, -30,
      -30, 5, 10, 15, 15, 10, 5, -30,
      -40, -20, 0, 5, 5, 0, -20, -40,
      -50, -40, -30, -30, -30, -30, -40, -50>>

PST_B ==
    <<-20, -10, -10, -10, -10, -10, -10, -20,
      -10, 0, 0, 0, 0, 0, 0, -10,
      -10, 0, 5, 10, 10, 5, 0, -10,
      -10, 5, 5, 10, 10, 5, 5, -10,
      -10, 0, 10, 10, 10, 10, 0, -10,
      -10, 10, 10, 10, 10, 10, 10, -10,
      -10, 5, 0, 0, 0, 0, 5, -10,
      -20, -10, -10, -10, -10, -10, -10, -20>>

PST_R ==
    <<0, 0, 0, 5, 5, 0, 0, 0,
      -5, 0, 0, 0, 0, 0, 0, -5,
      -5, 0, 0, 0, 0, 0, 0, -5,
      -5, 0, 0, 0, 0, 0, 0, -5,
      -5, 0, 0, 0, 0, 0, 0, -5,
      -5, 0, 0, 0, 0, 0, 0, -5,
      5, 10, 10, 10, 10, 10, 10, 5,
      0, 0, 0, 0, 0, 0, 0, 0>>

PST_Q ==
    <<-20, -10, -10, -5, -5, -10, -10, -20,
      -10, 0, 0, 0, 0, 0, 0, -10,
      -10, 0, 5, 5, 5, 5, 0, -10,
      -5, 0, 5, 5, 5, 5, 0, -5,
      0, 0, 5, 5, 5, 5, 0, -5,
      -10, 5, 5, 5, 5, 5, 0, -10,
      -10, 0, 5, 0, 0, 0, 0, -10,
      -20, -10, -10, -5, -5, -10, -10, -20>>

PST_K ==
    <<-30, -40, -40, -50, -50, -40, -40, -30,
      -30, -40, -40, -50, -50, -40, -40, -30,
      -30, -40, -40, -50, -50, -40, -40, -30,
      -30, -40, -40, -50, -50, -40, -40, -30,
      -20, -30, -30, -40, -40, -30, -30, -20,
      -10, -20, -20, -20, -20, -20, -20, -10,
      20, 20, 0, 0, 0, 0, 20, 20,
      20, 30, 10, 0, 0, 10, 30, 20>>

PST(t) ==
    IF t = "P" THEN PST_P ELSE IF t = "N" THEN PST_N
    ELSE IF t = "B" THEN PST_B ELSE IF t = "R" THEN PST_R
    ELSE IF t = "Q" THEN PST_Q ELSE PST_K

mirrorForBlack(sq) == (7 - (sq \div 8)) * 8 + (sq % 8)

\* The material and piece-square sum over the occupied squares from i on
\* (empty squares are skipped).
RECURSIVE pieceSum(_, _)
pieceSum(s, i) ==
    LET occupied == {j \in i..63 : s.board[j] # Null}
        k == CHOOSE j \in occupied : \A j2 \in occupied : j <= j2
        p == s.board[k]
        idx == IF p.c = "w" THEN k ELSE mirrorForBlack(k)
        v == VAL(p.t) + PST(p.t)[idx + 1]
    IN  IF occupied = {} THEN 0
        ELSE (IF p.c = "w" THEN v ELSE -v) + pieceSum(s, k + 1)

classicEval(s) ==
    LET wB == Cardinality({i \in Squares : s.board[i] = Pc("w", "B")})
        bB == Cardinality({i \in Squares : s.board[i] = Pc("b", "B")})
    IN  pieceSum(s, 0)
        + (IF wB >= 2 THEN 30 ELSE 0) - (IF bB >= 2 THEN 30 ELSE 0)
        + 2 * (Cardinality(allLegalMoves(s, "w"))
               - Cardinality(allLegalMoves(s, "b")))
        + (IF s.turn = "w" THEN 8 ELSE -8)

\* The network. A weight file is a JSON value: null, or an object with the
\* fields layers, scale_cp and model_pov, each of which may be absent
\* (hasLayers FALSE, scale_cp 0, model_pov ""). A
\* row of the first layer's W is kept by piece type (the same weight on all
\* 64 squares of a type) plus the tempo weight, column 384.
PIECE_INDEX(t) ==
    IF t = "P" THEN 0 ELSE IF t = "N" THEN 1 ELSE IF t = "B" THEN 2
    ELSE IF t = "R" THEN 3 ELSE IF t = "Q" THEN 4 ELSE 5

\* s = b[r] + sum of W[r][c] * x[c] over the feature vector of the state:
\* x[t * 64 + i] = +1 / -1 for a white / black piece, x[384] the tempo.
RECURSIVE dotFeatures(_, _, _)
dotFeatures(row, s, i) ==
    IF i = 64 THEN row.tempo * (IF s.turn = "w" THEN 1 ELSE -1)
    ELSE LET p == s.board[i]
             w == row.piece[PIECE_INDEX(p.t) + 1]
         IN  (IF p = Null THEN 0 ELSE IF p.c = "w" THEN w ELSE -w)
                + dotFeatures(row, s, i + 1)

RECURSIVE dot(_, _)
dot(row, x) ==
    IF row = <<>> THEN 0 ELSE Head(row) * Head(x) + dot(Tail(row), Tail(x))

reluInPlace(v) == [k \in DOMAIN v |-> IF v[k] < 0 THEN 0 ELSE v[k]]

rawCP(blob, s) ==
    LET L0 == blob.layers[1]
        L1 == blob.layers[2]
        scale == IF blob.scale_cp # 0 THEN blob.scale_cp ELSE 1000
        h == reluInPlace([r \in 1..Len(L0.W) |->
                            L0.b[r] + dotFeatures(L0.W[r], s, 0)])
        y == [r \in 1..Len(L1.W) |-> L1.b[r] + dot(L1.W[r], h)]
    IN  y[1] * scale

\* buildMlpWhitePOV: throws on a null blob, on a layers list of a length
\* other than 2 and on a first layer without W (read for info.hidden).
buildMlpWhitePOV(blob) ==
    LET layers == IF blob.hasLayers THEN blob.layers ELSE <<>>
        pov == IF blob.model_pov = "" THEN "sidemove" ELSE blob.model_pov
    IN  IF blob.json = "null" THEN [outcome |-> "rejected"]
        ELSE IF Len(layers) # 2 THEN [outcome |-> "rejected"]
        ELSE IF ~layers[1].hasW THEN [outcome |-> "rejected"]
        ELSE [outcome |-> "resolved",
              evalFn |-> [kind |-> "mlp", pov |-> pov, wrapped |-> FALSE],
              info |-> [kind |-> "mlp", model_pov |-> pov]]

getEval(mode, fetched, blob) ==
    IF mode = "classic"
    THEN [outcome |-> "resolved",
          evalFn |-> [kind |-> "classic", pov |-> "white", wrapped |-> FALSE],
          info |-> [kind |-> "classic", model_pov |-> "white"]]
    ELSE IF mode # "mlp" THEN [outcome |-> "rejected"]
    ELSE IF fetched # "ok"
    THEN [outcome |-> "resolved",
          evalFn |-> [kind |-> "classic", pov |-> "white", wrapped |-> FALSE],
          info |-> [kind |-> "classic_fallback", model_pov |-> "white"]]
    ELSE buildMlpWhitePOV(blob)

\* main.js: the wrapper startSelfPlay puts around the evaluator.
wrapEvalToWhitePOV(evalFn, pov) ==
    IF pov = "sidemove" THEN [evalFn EXCEPT !.wrapped = TRUE] ELSE evalFn

\* The value an evaluator built above returns for a state.
evalApply(evalFn, blob, s) ==
    LET raw == rawCP(blob, s)
        inner == IF evalFn.kind = "classic" THEN classicEval(s)
                 ELSE IF evalFn.pov = "sidemove"
                 THEN (IF s.turn = "w" THEN raw ELSE -raw)
                 ELSE raw
    IN  IF evalFn.wrapped
        THEN (IF s.turn = "w" THEN inner ELSE -inner)
        ELSE inner

rowUp == [piece |-> <<1, 3, 3, 5, 9, 0>>, tempo |-> 1]

rowDown == [piece |-> <<-1, -3, -3, -5, -9, 0>>, tempo |-> -1]

layerHidden == [hasW |-> TRUE, W |-> <<rowUp, rowDown>>, b |-> <<0, 0>>]

layerOut == [hasW |-> TRUE, W |-> <<<<1, -1>>>>, b |-> <<0>>]

layerNoW == [hasW |-> FALSE, W |-> <<>>, b |-> <<0>>]

blobNull ==
    [json |-> "null", hasLayers |-> FALSE, layers |-> <<>>, scale_cp |-> 0,
     model_pov |-> ""]

blobNoLayers == [blobNull EXCEPT !.json = "object"]

blobOf(layers, pov) ==
    [json |-> "object", hasLayers |-> TRUE, layers |-> layers,
     scale_cp |-> 0, model_pov |-> pov]

Blobs ==
    {blobNull, blobNoLayers, blobOf(<<layerHidden>>, "sidemove"),
     blobOf(<<layerHidden, layerOut, layerOut>>, "sidemove"),
     blobOf(<<layerNoW, layerOut>>, "sidemove"),
     blobOf(<<layerHidden, layerNoW>>, "sidemove")}
    \cup {blobOf(<<layerHidden, layerOut>>, pov) :
            pov \in {"", "sidemove", "white"}}

\* What the fetch of the weight file ends in: a rejected fetch, a status
\* that is not ok, a body that is not JSON, or a parsed blob.
Fetches ==
    {[fetched |-> f, blob |-> blobNull] : f \in {"reject", "http", "badjson"}}
    \cup {[fetched |-> "ok", blob |-> b] : b \in Blobs}

EvalModes == {"classic", "mlp", "nnue"}

EvalFENs == {fenKP, fenKPb}

InitEval ==
    /\ state \in {loadFEN(initialState, fen).state : fen \in EvalFENs}
    /\ plies = 0
    /\ last = noMove
    /\ fenIO = fenIdle
    /\ zob = <<>>
    /\ table = <<>>
    /\ ttLast = <<>>
    /\ pick = <<>>
    /\ probe = <<>>
    /\ search = <<>>
    /\ evl \in {[phase |-> "idle", mode |-> m, fetched |-> f.fetched,
                 blob |-> f.blob, running |-> FALSE] :
                m \in EvalModes, f \in Fetches}
    /\ selfplay = <<>>
    /\ calls = <<>>
    /\ book = <<>>

\* eval.js: a call of getEval({mode}) on its own.
GetEval ==
    /\ evl.phase = "idle"
    /\ evl' = [phase |-> "got", mode |-> evl.mode, fetched |-> evl.fetched,
               blob |-> evl.blob, running |-> evl.running,
               result |-> getEval(evl.mode, evl.fetched, evl.blob)]
    /\ UNCHANGED <<state, plies, last, fenIO, zob, table, ttLast, pick, probe,
                   search, book, selfplay, calls>>

\* main.js: startSelfPlay up to the evaluator it hands to pickMove. A
\* rejected getEval ends the function with the running flag still set.
StartSelfPlay ==
    /\ evl.phase = "idle"
    /\ ~evl.running
    /\ LET r == getEval(evl.mode, evl.fetched, evl.blob)
       IN  evl' = [phase |-> "selfplay", mode |-> evl.mode,
                   fetched |-> evl.fetched, blob |-> evl.blob,
                   running |-> TRUE,
                   result |->
                     IF r.outcome = "rejected" THEN r
                     ELSE [r EXCEPT !.evalFn =
                             wrapEvalToWhitePOV(r.evalFn, r.info.model_pov)]]
    /\ UNCHANGED <<state, plies, last, fenIO, zob, table, ttLast, pick, probe,
                   search, book, selfplay, calls>>

\* main.js: startBatch up to the evaluator it hands to pickMove.
StartBatch ==
    /\ evl.phase = "idle"
    /\ ~evl.running
    /\ evl' = [phase |-> "batch", mode |-> evl.mode, fetched |-> evl.fetched,
               blob |-> evl.blob, running |-> TRUE,
               result |-> getEval(evl.mode, evl.fetched, evl.blob)]
    /\ UNCHANGED <<state, plies, last, fenIO, zob, table, ttLast, pick, probe,
                   search, book, selfplay, calls>>

NextEval == GetEval \/ StartSelfPlay \/ StartBatch

SpecEval == InitEval /\ [][NextEval]_vars

\* The weight file is a list of exactly two layers that both have W and b.
wellShaped(blob) ==
    /\ blob.json = "object"
    /\ blob.hasLayers
    /\ Len(blob.layers) = 2
    /\ blob.layers[1].hasW
    /\ blob.layers[2].hasW

\* C15: in mlp mode getEval never fails: when the weight file cannot be
\* fetched, cannot be parsed or is shaped wrong, it resolves to the
\* classical evaluator.
C15_MlpFallback ==
    (/\ evl.phase = "got"
     /\ evl.mode = "mlp"
     /\ (evl.fetched # "ok" \/ ~wellShaped(evl.blob)))
        => /\ evl.result.outcome = "resolved"
           /\ evl.result.evalFn.kind = "classic"

\* C17: the evaluator startSelfPlay and startBatch hand to pickMove is
\* White-POV: in classic mode it is classicEval, and for network weights
\* of model_pov sidemove it is the network's output for White to move and
\* its negation for Black to move.
C17_WhitePOV ==
    (/\ evl.phase \in {"selfplay", "batch"}
     /\ evl.result.outcome = "resolved"
     /\ \/ evl.result.evalFn.kind = "classic"
        \/ /\ evl.result.info.kind = "mlp"
           /\ evl.result.info.model_pov = "sidemove"
           /\ wellShaped(evl.blob))
        => evalApply(evl.result.evalFn, evl.blob, state) =
            IF evl.result.evalFn.kind = "classic" THEN classicEval(state)
            ELSE IF state.turn = "w" THEN rawCP(evl.blob, state)
            ELSE -rawCP(evl.blob, state)

\* C27: every record pickMove writes to the book carries a depth no
\* greater than the depth of the last iteration pickMove completed; when
\* no iteration completed, no record of a positive depth is written.
C27_BookDepth ==
    pick.pc = "done" =>
        \A k \in DOMAIN book : book[k].depth <= pick.finishedDepth

\* ai/book.js: the inputs and the actions of the book.
BookKeys == {"", "a1", "b2", "c3"}

BookDepths == {1, 2}

noInsert == [called |-> FALSE]

InitBook ==
    /\ state = initialState
    /\ plies = 0
    /\ last = noMove
    /\ fenIO = fenIdle
    /\ zob = <<>>
    /\ table = <<>>
    /\ ttLast = <<>>
    /\ pick = <<>>
    /\ probe = <<>>
    /\ search = <<>>
    /\ evl = <<>>
    /\ selfplay = <<>>
    /\ calls = <<>>
    /\ book = [map |-> <<>>, clock |-> 1, ins |-> noInsert,
               found |-> [key |-> ""]]

BookInsert ==
    \E zhex \in BookKeys, depth \in BookDepths, n \in 1..Len(Times) :
        /\ n >= book.clock
        /\ LET r == bookInsert(book.map, zhex, depth, Times[n])
           IN  book' = [map |-> r.map, clock |-> n,
                        ins |-> IF r.called
                                THEN [called |-> TRUE, key |-> zhex,
                                      assigned |-> r.assigned,
                                      deleted |-> r.deleted]
                                ELSE noInsert,
                        found |-> [key |-> ""]]
        /\ UNCHANGED <<state, plies, last, fenIO, zob, table, ttLast, pick,
                       probe, search, evl, selfplay, calls>>

BookProbe ==
    \E zhex \in BookKeys, minDepth \in {0} \cup BookDepths :
        /\ book' = [book EXCEPT !.found = bookProbe(book.map, zhex, minDepth),
                                !.ins = noInsert]
        /\ UNCHANGED <<state, plies, last, fenIO, zob, table, ttLast, pick,
                       probe, search, evl, selfplay, calls>>

NextBook == BookInsert \/ BookProbe

SpecBook == InitBook /\ [][NextBook]_vars

\* C16: after every bookInsert the cache holds at most MAX_ENTRIES records;
\* when the insert pushed it above the cap, every deleted record is at
\* least as old as every record kept, and the record just inserted is not
\* among the deleted.
C16_Purge ==
    /\ Len(book.map) <= MAX_ENTRIES
    /\ book.ins.called =>
        /\ book.ins.key \notin book.ins.deleted
        /\ \A d \in DOMAIN book.ins.assigned, k \in DOMAIN book.ins.assigned :
            (/\ book.ins.assigned[d].key \in book.ins.deleted
             /\ book.ins.assigned[k].key \notin book.ins.deleted)
                => ~tsLess(book.ins.assigned[k].ts, book.ins.assigned[d].ts)

\* ------------------------------------------------------------------
\* ai/search.js: quiescence and alphaBeta. The evaluator is classicEval.
\* Each function returns its value together with the module state it
\* leaves behind (ctx): the transposition table, the killer slots, the
\* history table and the clock. The clock is the number of timeExpired()
\* calls that still answer false (Unlimited: DEADLINE is +Infinity). The
\* table is kept as a function from the keys stored to their entries: the
\* positions of one small tree fall into distinct slots.
\* ------------------------------------------------------------------
UPPER == 2

CONTEMPT == 12

MAX_PLY == 128

MaxHistory == 1000000

Unlimited == -1

\* The score read from a field that is absent (undefined): every
\* comparison with it is false.
NoScore == 2000000001

gt(a, b) == a # NoScore /\ b # NoScore /\ a > b

lt(a, b) == a # NoScore /\ b # NoScore /\ a < b

ge(a, b) == a # NoScore /\ b # NoScore /\ a >= b

\* a + n in floating point: an infinity stays what it is.
plus(a, n) == IF a = Infinity \/ a = -Infinity THEN a ELSE a + n

isFiniteScore(v) == v # NoScore /\ v < Infinity /\ v > -Infinity

deadlineHit(ctx) == ctx.left = 0

\* The state after one call of timeExpired().
tick(ctx) ==
    IF ctx.left = Unlimited THEN ctx
    ELSE IF ctx.left = 0 THEN [ctx EXCEPT !.struck = TRUE]
    ELSE [ctx EXCEPT !.left = @ - 1]

moveKey(from, to) == from * 64 + to

killersAt(ctx, ply) ==
    IF ply \in DOMAIN ctx.killers THEN ctx.killers[ply] ELSE <<-1, -1>>

addKiller(ctx, ply, mkey) ==
    IF ply < 0 \/ ply >= MAX_PLY THEN ctx
    ELSE IF killersAt(ctx, ply)[1] = mkey THEN ctx
    ELSE [ctx EXCEPT !.killers =
            (ply :> <<mkey, killersAt(ctx, ply)[1]>>) @@ @]

historyAt(ctx, sideIdx, from, to) ==
    IF <<sideIdx, from, to>> \in DOMAIN ctx.history
    THEN ctx.history[<<sideIdx, from, to>>] ELSE 0

bumpHistory(ctx, sideIdx, from, to, depth) ==
    LET bonus == (depth + 1) * (depth + 1) * 32
        nxt == historyAt(ctx, sideIdx, from, to) + bonus
    IN  [ctx EXCEPT !.history =
            (<<sideIdx, from, to>> :> Min(nxt, MaxHistory)) @@ @]

nonPawnPieceCount(s) ==
    Cardinality({i \in Squares :
                    s.board[i] # Null /\ s.board[i].t \notin {"P", "K"}})

endgamePhase(s) == nonPawnPieceCount(s) <= 4

insufficientMaterial(s) ==
    LET count(ts) == Cardinality({i \in Squares :
                        s.board[i] # Null /\ s.board[i].t \in ts})
    IN  IF count({"P"}) > 0 THEN FALSE
        ELSE IF count({"R", "Q"}) > 0 THEN FALSE
        ELSE count({"B", "N"}) <= 2

drawScore(turn) == IF turn = "w" THEN -CONTEMPT ELSE CONTEMPT

isCapture(s, from, to) ==
    LET mover == s.board[from]
        target == s.board[to]
    IN  /\ mover # Null
        /\ \/ (target # Null /\ target.c # mover.c)
           \/ isEnPassantMove(s, from, to)

\* The quiet flag annotateMoves computes for a move.
moveQuiet(s, from, to) ==
    /\ s.board[to] = Null
    /\ ~isEnPassantMove(s, from, to)
    /\ ~isPromotionMove(s, from, to)
    /\ ~isCastleMove(s, from, to)

givesCheckAfter(s, from, to, enemyKingSq) ==
    LET mover == s.board[from]
        dir == IF mover.c = "w" THEN -1 ELSE 1
        isEP == /\ mover.t = "P" /\ to = s.ep
                /\ (from % 8) # (to % 8) /\ s.board[to] = Null
        epCapIdx == toIndex((to \div 8) - dir, to % 8)
        moved == [i \in Squares |->
                    IF i = to THEN mover
                    ELSE IF i = from THEN Null
                    ELSE IF isEP /\ i = epCapIdx THEN Null
                    ELSE s.board[i]]
    IN  /\ mover # Null
        /\ isSquareAttacked([s EXCEPT !.board = moved], enemyKingSq, mover.c)

\* The ordering score with the killer slots of the ply and the history
\* table; light leaves the gives-check bonus out.
orderScoreAt(s, from, to, ttBest, sideIdx, ply, light, ctx) ==
    LET quiet == moveQuiet(s, from, to)
        enemyKingSq == findKing(s, Other(s.turn))
        mkey == moveKey(from, to)
        ks == killersAt(ctx, ply)
    IN  orderScore(s, from, to, ttBest)
        + (IF ~light /\ quiet /\ enemyKingSq # NoSq
              /\ givesCheckAfter(s, from, to, enemyKingSq) THEN 150 ELSE 0)
        + (IF ~quiet THEN 0
           ELSE (IF mkey = ks[1] THEN 500000000
                 ELSE IF mkey = ks[2] THEN 499999999 ELSE 0)
                + historyAt(ctx, sideIdx, from, to))

RECURSIVE sortAnnotated(_)
sortAnnotated(anns) ==
    IF anns = {} THEN <<>>
    ELSE LET first(a, b) ==
                \/ a.os > b.os
                \/ a.os = b.os /\ a.from < b.from
                \/ a.os = b.os /\ a.from = b.from /\ a.to < b.to
             m == CHOOSE x \in anns : \A y \in anns \ {x} : first(x, y)
         IN  <<m>> \o sortAnnotated(anns \ {m})

annotateMovesAt(s, moves, ttBest, sideIdx, ply, light, ctx) ==
    sortAnnotated({[from |-> m[1], to |-> m[2],
                    os |-> orderScoreAt(s, m[1], m[2], ttBest, sideIdx, ply,
                                        light, ctx),
                    mkey |-> moveKey(m[1], m[2]),
                    quiet |-> moveQuiet(s, m[1], m[2])] : m \in moves})

fiftyMoveDraw(s) == s.halfmove >= 100

\* null when the side has a move, else the terminal score.
terminalScoreGivenMoves(s, moves, depth) ==
    IF moves # {} THEN [isNull |-> TRUE, v |-> 0]
    ELSE IF inCheck(s, s.turn)
    THEN LET plyPenalty == 100 - depth
         IN  [isNull |-> FALSE,
              v |-> (IF s.turn = "w" THEN -1 ELSE 1) * (MATE - plyPenalty)]
    ELSE [isNull |-> FALSE, v |-> 0]

hasNonPawnMaterial(s, side) ==
    \E i \in Squares :
        /\ s.board[i] # Null /\ s.board[i].c = side
        /\ s.board[i].t \notin {"P", "K"}

makeNullMove(s) == [s EXCEPT !.turn = Other(s.turn), !.ep = NoSq]

probeTT(tt, key, reqDepth) ==
    IF key \notin DOMAIN tt THEN ttMiss
    ELSE IF toInt32(tt[key].depth) >= toInt32(reqDepth)
    THEN [kind |-> "entry", key |-> key, depth |-> tt[key].depth,
          flag |-> tt[key].flag, score |-> tt[key].score,
          bestMove |-> tt[key].bestMove]
    ELSE [kind |-> "hint", bestMove |-> tt[key].bestMove]

storeTT(tt, key, depth, flag, score, bestMove) ==
    (key :> [depth |-> toInt32(depth), flag |-> flag, score |-> score,
             bestMove |-> bestMove]) @@ tt

\* A value the source holds in a const is bound once, as the one member of
\* a set: CHOOSE res \in {e(x) : x \in {d}} : TRUE is e(d).
RECURSIVE quiescence(_, _, _, _)
RECURSIVE quiescenceLoop(_, _, _, _, _, _)
RECURSIVE alphaBeta(_, _, _, _, _, _)
RECURSIVE alphaBetaMoves(_, _, _, _, _, _, _, _, _)
RECURSIVE alphaBetaLoop(_, _, _, _, _, _, _, _, _)

\* rep.get(key) | 0 and rep.set(key, n) on the repetition map, which all
\* calls of one search share.
repGet(ctx, key) == IF key \in DOMAIN ctx.rep THEN ctx.rep[key] ELSE 0

repSet(ctx, key, n) == [ctx EXCEPT !.rep = (key :> n) @@ @]

repRestore_skip(ctx, key, seen) == ctx

\* The rep.set(key, seen) before each return of alphaBeta.
repRestore(ctx, key, seen) == repSet(ctx, key, seen)

\* The depths of the reduced searches.
nullDepth(depth) == depth - 1 - (IF depth >= 6 THEN 3 ELSE 2)

lmrDepth_unreduced(depth, idx) == depth

lmrDepth(depth, idx) == depth - 1 - (IF idx >= 10 THEN 2 ELSE 1)

\* History of a search, not state of the code: edges holds, for every
\* recursive call of alphaBeta, its kind, the caller's depth and the
\* callee's; late tells that a move was applied after a call of
\* timeExpired had returned true; quiet tells that every move applied in
\* quiescence was a capture, a pawn move or raised the halfmove clock;
\* misHint tells that a node stored as its hint a move whose search
\* neither returned the node's score nor cut the node off.
called(ctx, kind, depth, child) ==
    [ctx EXCEPT !.edges = @ \cup {<<kind, depth, child>>}]

noteMove(ctx, s, from, to, cs) ==
    [ctx EXCEPT !.late = @ \/ ctx.struck,
                !.moved = TRUE]

noteQuiescenceMove(ctx, s, from, to, cs) ==
    [noteMove(ctx, s, from, to, cs) EXCEPT
        !.quiet = @ /\ \/ s.board[from].t = "P"
                       \/ isCapture(s, from, to)
                       \/ cs.halfmove = s.halfmove + 1]

\* The move loop of quiescence from move i on: cs is the child position,
\* r the value and the module state its search returns.
quiescenceLoop(s, anns, i, alpha, beta, ctx) ==
    IF i > Len(anns)
    THEN [v |-> IF s.turn = "w" THEN alpha ELSE beta, ctx |-> ctx]
    ELSE
    CHOOSE res \in {
      CHOOSE res \in {
        LET a2 == IF s.turn = "w" /\ r.v > alpha THEN r.v ELSE alpha
            b2 == IF s.turn = "b" /\ r.v < beta THEN r.v ELSE beta
        IN  IF a2 >= b2
            THEN [v |-> IF s.turn = "w" THEN a2 ELSE b2, ctx |-> r.ctx]
            ELSE quiescenceLoop(s, anns, i + 1, a2, b2, r.ctx)
        : r \in {quiescence(cs, alpha, beta,
                    noteQuiescenceMove(ctx, s, anns[i].from, anns[i].to,
                                       cs))}} : TRUE
      : cs \in {applyMovePure(cloneState(s), anns[i].from, anns[i].to)}}
      : TRUE

\* e holds inChk and stand, moves the moves left after the filter.
quiescence(s, alpha, beta, ctx) ==
    IF fiftyMoveDraw(s) \/ insufficientMaterial(s)
    THEN [v |-> drawScore(s.turn), ctx |-> ctx]
    ELSE
    CHOOSE res \in {
      LET sideMax == s.turn = "w"
          inChk == e[1]
          stand == e[2]
          a1 == IF ~inChk /\ sideMax /\ stand > alpha THEN stand ELSE alpha
          b1 == IF ~inChk /\ ~sideMax /\ stand < beta THEN stand ELSE beta
          sideIdx == IF sideMax THEN 0 ELSE 1
      IN  IF ~inChk /\ (IF sideMax THEN stand >= beta ELSE stand <= alpha)
          THEN [v |-> stand, ctx |-> ctx]
          ELSE IF deadlineHit(ctx) THEN [v |-> stand, ctx |-> tick(ctx)]
          ELSE
          CHOOSE res \in {
            IF ~inChk /\ moves = {} THEN [v |-> stand, ctx |-> tick(ctx)]
            ELSE quiescenceLoop(s,
                    annotateMovesAt(s, moves, <<>>, sideIdx, 0, TRUE,
                                    tick(ctx)),
                    1, a1, b1, tick(ctx))
            : moves \in {{m \in allLegalMoves(s, s.turn) :
                            inChk \/ isCapture(s, m[1], m[2])}}} : TRUE
      : e \in {<<inCheck(s, s.turn), classicEval(s)>>}} : TRUE

\* The move loop of alphaBeta from move i on (idx = i - 1). acc.best is
\* the best value so far; acc.v0, acc.n and acc.cut are history: the value
\* the search of scored[0] returned, the number of moves searched and the
\* index of the move that cut the loop off. cs is the child position, r
\* the value and the module state the search of the move returns.
alphaBetaLoop(s, depth, alpha, beta, ply, ctx, scored, i, acc) ==
    IF i > Len(scored) THEN [acc |-> acc, ctx |-> ctx]
    ELSE IF deadlineHit(ctx) THEN [acc |-> acc, ctx |-> tick(ctx)]
    ELSE
    LET maximizing == s.turn = "w"
        endgame == endgamePhase(s)
        sideIdx == IF maximizing THEN 0 ELSE 1
        idx == i - 1
        m == scored[i]
        w == IF maximizing THEN plus(alpha, 1) ELSE plus(beta, -1)
    IN  IF \/ ~endgame /\ depth <= 3 /\ m.quiet /\ idx >= 8
           \/ /\ ~endgame /\ depth = 1 /\ m.quiet
              /\ ~inCheck(s, s.turn)
              /\ \E stand \in {classicEval(s)} :
                    IF maximizing THEN stand + 250 <= alpha
                    ELSE stand - 250 >= beta
        THEN alphaBetaLoop(s, depth, alpha, beta, ply, tick(ctx), scored,
                           i + 1, acc)
        ELSE
        CHOOSE res \in {
          CHOOSE res \in {
            LET best2 == IF maximizing
                         THEN (IF gt(r.v, acc.best) THEN r.v ELSE acc.best)
                         ELSE (IF lt(r.v, acc.best) THEN r.v ELSE acc.best)
                a2 == IF maximizing /\ gt(r.v, alpha) THEN r.v ELSE alpha
                b2 == IF ~maximizing /\ lt(r.v, beta) THEN r.v ELSE beta
                acc2 == [best |-> best2,
                         v0 |-> IF i = 1 THEN r.v ELSE acc.v0,
                         n |-> acc.n + 1,
                         cut |-> IF a2 >= b2 THEN i ELSE 0]
            IN  IF a2 >= b2
                THEN [acc |-> acc2,
                      ctx |-> IF m.quiet
                              THEN bumpHistory(addKiller(r.ctx, ply, m.mkey),
                                               sideIdx, m.from, m.to, depth)
                              ELSE r.ctx]
                ELSE alphaBetaLoop(s, depth, a2, b2, ply, r.ctx, scored,
                                   i + 1, acc2)
            : r \in {
                IF ~endgame /\ depth >= 4 /\ m.quiet /\ idx >= 6
                   /\ ply < MAX_PLY - 1
                THEN CHOOSE res \in {
                       IF (IF maximizing THEN gt(reduced.v, alpha)
                           ELSE lt(reduced.v, beta))
                       THEN IF deadlineHit(reduced.ctx)
                            THEN [v |-> reduced.v,
                                  ctx |-> tick(reduced.ctx)]
                            ELSE alphaBeta(cs, depth - 1, alpha, beta,
                                    ply + 1,
                                    called(tick(reduced.ctx), "full", depth,
                                           depth - 1))
                       ELSE reduced
                       : reduced \in {
                           alphaBeta(cs, lmrDepth(depth, idx), w, w, ply + 1,
                              called(noteMove(tick(ctx), s, m.from, m.to, cs),
                                     "lmr", depth, lmrDepth(depth, idx)))}}
                       : TRUE
                ELSE alphaBeta(cs, depth - 1, alpha, beta, ply + 1,
                        called(noteMove(tick(ctx), s, m.from, m.to, cs),
                               "full", depth, depth - 1))}} : TRUE
          : cs \in {applyMovePure(cloneState(s), m.from, m.to)}} : TRUE

\* alphaBeta from the table probe on: key is the position's key, seen its
\* count at entry, moves0 its legal moves, ctx the module state and the
\* repetition map at that point; alpha and beta are alphaStart and
\* betaStart. entry is what the probe returns, scored the ordered moves,
\* loop what the move loop returns.
alphaBetaMoves(s, depth, alpha, beta, ply, ctx, key, seen, moves0) ==
    CHOOSE res \in {
      LET maximizing == s.turn = "w"
          flag == IF entry.kind = "entry" THEN entry.flag ELSE NoScore
          score == IF entry.kind = "entry" THEN entry.score ELSE NoScore
          a1 == IF flag = LOWER THEN Max(alpha, score) ELSE alpha
          b1 == IF flag = UPPER THEN Min(beta, score) ELSE beta
          ttBest == IF entry.kind = "null" THEN <<>> ELSE entry.bestMove
          sideIdx == IF maximizing THEN 0 ELSE 1
      IN  IF entry.kind = "entry" /\ flag = EXACT
          THEN [v |-> score, ctx |-> repRestore(ctx, key, seen)]
          ELSE IF entry.kind # "null" /\ a1 >= b1
          THEN [v |-> score, ctx |-> repRestore(ctx, key, seen)]
          ELSE
          CHOOSE res \in {
            CHOOSE res \in {
              LET best == loop.acc.best
                  storeFlag == IF best <= alpha THEN UPPER
                               ELSE IF best >= beta THEN LOWER ELSE EXACT
                  mis == /\ loop.acc.n > 0
                         /\ loop.acc.v0 # best
                         /\ loop.acc.cut # 1
                  stored == [loop.ctx EXCEPT
                              !.tt = storeTT(@, key, depth, storeFlag, best,
                                      IF Len(scored) > 0
                                      THEN <<scored[1].from, scored[1].to>>
                                      ELSE <<>>),
                              !.misHint = @ \/ mis]
              IN  [v |-> best, ctx |-> repRestore(stored, key, seen)]
              : loop \in {alphaBetaLoop(s, depth, a1, b1, ply, ctx, scored, 1,
                            [best |-> IF maximizing THEN -MATE ELSE MATE,
                             v0 |-> NoScore, n |-> 0, cut |-> 0])}} : TRUE
            : scored \in {annotateMovesAt(s, moves0, ttBest, sideIdx, ply,
                                          depth <= 3, ctx)}} : TRUE
      : entry \in {probeTT(ctx.tt, key, depth)}} : TRUE

\* key is the position's key, moves0 its legal moves, nullScore what the
\* null-move search returns (NoScore when it is not tried).
alphaBeta(s, depth, alpha, beta, ply, ctx) ==
    IF fiftyMoveDraw(s) \/ insufficientMaterial(s)
    THEN [v |-> drawScore(s.turn), ctx |-> ctx]
    ELSE
    CHOOSE res \in {
      LET seen == repGet(ctx, key)
          entered == repSet(tick(ctx), key, seen + 1)
      IN  IF seen >= 2
          THEN [v |-> drawScore(s.turn), ctx |-> ctx]
          ELSE IF deadlineHit(ctx) \/ depth = 0
          THEN quiescence(s, alpha, beta, repRestore(entered, key, seen))
          ELSE
          CHOOSE res \in {
            LET term == terminalScoreGivenMoves(s, moves0, depth)
            IN  IF ~term.isNull
                THEN [v |-> term.v, ctx |-> repRestore(entered, key, seen)]
                ELSE
                CHOOSE res \in {
                  IF ge(nullScore.v, beta)
                  THEN [v |-> nullScore.v,
                        ctx |-> [repRestore(nullScore.ctx, key, seen)
                                   EXCEPT !.nullCut = TRUE]]
                  ELSE alphaBetaMoves(s, depth, alpha, beta, ply,
                                      nullScore.ctx, key, seen, moves0)
                  : nullScore \in {
                      \* null-move pruning
                      IF /\ ~endgamePhase(s) /\ depth >= 3
                         /\ ~inCheck(s, s.turn)
                         /\ hasNonPawnMaterial(s, s.turn)
                         /\ classicEval(s) >= beta
                      THEN alphaBeta(makeNullMove(s), nullDepth(depth),
                              plus(beta, -1), beta, ply + 1,
                              called(entered, "null", depth,
                                     nullDepth(depth)))
                      ELSE [v |-> NoScore, ctx |-> entered]}} : TRUE
            : moves0 \in {allLegalMoves(s, s.turn)}} : TRUE
      : key \in {computeKey(s)}} : TRUE

MaxSearchDepth == 2

\* 7k/6Q1/5K2/8/8/8/8/8 b - - 0 1 : Black is checkmated
fenMated ==
    <<"7", "k", "/", "6", "Q", "1", "/", "5", "K", "2", "/", "8", "/", "8",
      "/", "8", "/", "8", "/", "8", " ", "b", " ", "-", " ", "-", " ", "0",
      " ", "1">>

\* 7k/5P2/6PK/8/8/8/8/8 w - - 0 1 : g6-g7 mates
fenMateInOne ==
    <<"7", "k", "/", "5", "P", "2", "/", "6", "P", "K", "/", "8", "/", "8",
      "/", "8", "/", "8", "/", "8", " ", "w", " ", "-", " ", "-", " ", "0",
      " ", "1">>

\* 7k/8/8/8/8/5p2/6p1/7K w - - 0 1 : White is in check and has two quiet
\* replies, Kh2 and Kg1
fenReplies ==
    <<"7", "k", "/", "8", "/", "8", "/", "8", "/", "8", "/", "5", "p", "2",
      "/", "6", "p", "1", "/", "7", "K", " ", "w", " ", "-", " ", "-", " ",
      "0", " ", "1">>

\* bn5k/1p4pp/8/8/8/8/1P4PP/BN4NK w - - 0 1 : five minor pieces, twelve
\* quiet moves for White, no capture within two plies
fenMiddle ==
    <<"b", "n", "5", "k", "/", "1", "p", "4", "p", "p", "/", "8", "/", "8",
      "/", "8", "/", "8", "/", "1", "P", "4", "P", "P", "/", "B", "N", "4",
      "N", "K", " ", "w", " ", "-", " ", "-", " ", "0", " ", "1">>

MaxDeepDepth == 4

SearchFENs ==
    {fenMated, fenMateInOne, fenStalemate, fenKP, fenKPb, fenReplies,
     fenMiddle}

Windows == {<<-Infinity, Infinity>>, <<0, 0>>, <<-50, 50>>}

\* The depths and windows a position is searched with: the positions with
\* more than four pieces from depth 3 on, and also with a beta their
\* static evaluation reaches, so that the null-move search is tried.
DepthsOf(s) ==
    IF endgamePhase(s) THEN 0..MaxSearchDepth ELSE 3..MaxDeepDepth

WindowsOf(s) ==
    IF endgamePhase(s) THEN Windows
    ELSE Windows \cup {<<-Infinity, 0>>}

Lefts == {Unlimited, 0, 1, 2}

\* The table before the call: empty, or holding for the position an entry
\* of depth 1; for a position with more than four pieces, holding for
\* each position one move away an exact entry left by a deeper search.
seedTT(s, seeded) ==
    IF ~seeded THEN <<>>
    ELSE IF endgamePhase(s)
    THEN storeTT(<<>>, computeKey(s), 1, LOWER, 20, <<>>)
    ELSE CHOOSE tt \in {
           [k \in {kid[1] : kid \in kids} |->
              [depth |-> MaxDeepDepth, flag |-> EXACT,
               score |-> (CHOOSE kid \in kids : kid[1] = k)[2],
               bestMove |-> <<>>]]
           : kids \in {{<<computeKey(applyMovePure(cloneState(s), m[1],
                                                   m[2])), m[2]>> :
                          m \in allLegalMoves(s, s.turn)}}} : TRUE

newCtx(tt, left) ==
    [tt |-> tt, killers |-> <<>>, history |-> <<>>, left |-> left,
     rep |-> <<>>, struck |-> FALSE, late |-> FALSE, moved |-> FALSE,
     quiet |-> TRUE, misHint |-> FALSE, nullCut |-> FALSE, edges |-> {}]

searchIdle == [phase |-> "idle"]

InitSearch ==
    /\ state \in {loadFEN(initialState, fen).state : fen \in SearchFENs}
    /\ plies = 0
    /\ last = noMove
    /\ fenIO = fenIdle
    /\ zob = <<>>
    /\ table = <<>>
    /\ ttLast = <<>>
    /\ pick = <<>>
    /\ probe = <<>>
    /\ search = searchIdle
    /\ evl = <<>>
    /\ selfplay = <<>>
    /\ calls = <<>>
    /\ book = <<>>

\* The repetition map before the call: empty, or holding the count seen0
\* for the position, as when the position stands seen0 times on the path
\* that leads to the call.
repBase(s, seen0) ==
    IF seen0 = 0 THEN <<>> ELSE (computeKey(s) :> seen0)

AlphaBeta ==
    /\ search.phase = "idle"
    /\ \E depth \in DepthsOf(state), win \in WindowsOf(state),
          seeded \in BOOLEAN, left \in Lefts, ply \in {0, 1}, seen0 \in 0..2 :
         /\ seen0 > 0 => (left = Unlimited /\ ply = 1)
         /\ endgamePhase(state) => (seen0 > 0 => ~seeded)
         /\ ~endgamePhase(state) => (seeded /\ left = Unlimited /\ seen0 < 2)
         /\ \E c \in {[newCtx(seedTT(state, seeded), left) EXCEPT
                            !.rep = repBase(state, seen0)]} :
            \E r \in {alphaBeta(state, depth, win[1], win[2], ply, c)} :
             search' = [phase |-> "alphaBeta", depth |-> depth,
                        alpha |-> win[1], beta |-> win[2], ply |-> ply,
                        seeded |-> seeded, left |-> left, v |-> r.v,
                        tt |-> r.ctx.tt, seen0 |-> seen0,
                        rep0 |-> c.rep, rep |-> r.ctx.rep,
                        struck |-> r.ctx.struck, late |-> r.ctx.late,
                        moved |-> r.ctx.moved, quiet |-> r.ctx.quiet,
                        misHint |-> r.ctx.misHint,
                        nullCut |-> r.ctx.nullCut, edges |-> r.ctx.edges]
    /\ UNCHANGED <<state, plies, last, fenIO, zob, table, ttLast, pick, probe,
                   evl, book, selfplay, calls>>

Quiescence ==
    /\ search.phase = "idle"
    /\ \E win \in WindowsOf(state), left \in Lefts :
         \E c \in {newCtx(<<>>, left)} :
         \E r \in {quiescence(state, win[1], win[2], c)} :
             search' = [phase |-> "quiescence", alpha |-> win[1],
                        beta |-> win[2], left |-> left, v |-> r.v,
                        struck |-> r.ctx.struck, late |-> r.ctx.late,
                        moved |-> r.ctx.moved, quiet |-> r.ctx.quiet]
    /\ UNCHANGED <<state, plies, last, fenIO, zob, table, ttLast, pick, probe,
                   evl, book, selfplay, calls>>

NextSearch == AlphaBeta \/ Quiescence

SpecSearch == InitSearch /\ [][NextSearch]_vars

\* C12: alphaBeta returns a finite number for every position, depth,
\* window with alpha <= beta and table content, zero-width windows over
\* an entry of insufficient depth included.
C12_AlphaBetaFinite ==
    search.phase = "alphaBeta" => isFiniteScore(search.v)

\* C18: quiescence returns a finite number for every position and window.
C18_QuiescenceFinite ==
    search.phase = "quiescence" => isFiniteScore(search.v)

\* A checkmated node lies within n plies of s.
RECURSIVE mateWithin(_, _)
mateWithin(s, n) ==
    LET moves == allLegalMoves(s, s.turn)
    IN  \/ moves = {} /\ inCheck(s, s.turn)
        \/ /\ n > 0
           /\ \E m \in moves : mateWithin(applyMovePure(s, m[1], m[2]), n - 1)

\* C19: a score of magnitude above 99000 that alphaBeta returns, or stores
\* in the table for the position, comes from a checkmated node of the
\* searched tree: it is never the initial value of best at a node that has
\* legal moves.
C19_MateScoreOrigin ==
    search.phase = "alphaBeta" =>
        /\ (search.v # NoScore /\ Abs(search.v) > MateThreshold)
            => mateWithin(state, search.depth)
        /\ (/\ computeKey(state) \in DOMAIN search.tt
            /\ Abs(search.tt[computeKey(state)].score) > MateThreshold)
            => mateWithin(state, search.depth)

\* C20: at a node reached at ply p with depth >= 1 where the side to move
\* has no legal move, alphaBeta returns 0 when the side is not in check
\* and otherwise -(MATE - p) for White mated, +(MATE - p) for Black mated.
C20_TerminalScore ==
    (/\ search.phase = "alphaBeta"
     /\ search.depth >= 1
     /\ search.left = Unlimited
     /\ allLegalMoves(state, state.turn) = {})
        => search.v = IF ~inCheck(state, state.turn) THEN 0
                      ELSE IF state.turn = "w" THEN -(MATE - search.ply)
                      ELSE MATE - search.ply

\* C21: alphaBeta returns the draw score as soon as the count of the
\* position's key on the search path reaches 2: a call on a position that
\* already stands once on the path (its second occurrence) returns
\* drawScore.
C21_SecondOccurrence ==
    (/\ search.phase = "alphaBeta"
     /\ search.seen0 = 1)
        => search.v = drawScore(state.turn)

\* C23: the hint alphaBeta stores at node exit is the move whose search
\* returned the node's score or cut the node off, at every node where a
\* move was searched.
C23_HintIsBest ==
    search.phase = "alphaBeta" => ~search.misHint

\* C25: once a call of timeExpired has returned true, no call applies a
\* further move to any position.
C25_NoMoveAfterDeadline ==
    search.phase \in {"alphaBeta", "quiescence"} => ~search.late

repCount(rep, key) == IF key \in DOMAIN rep THEN rep[key] ELSE 0

\* C24: alphaBeta leaves the repetition counter as it found it: after the
\* call the count of every key equals its count at entry, whichever
\* return path was taken.
C24_RepRestored ==
    search.phase = "alphaBeta"
        => \A key \in DOMAIN search.rep \cup DOMAIN search.rep0 :
                repCount(search.rep, key) = repCount(search.rep0, key)

\* A call on a position that stands once on the path returned by the
\* null-move cutoff after moves were searched below it.
C24_Witness ==
    /\ search.phase = "alphaBeta"
    /\ search.seen0 = 1
    /\ search.nullCut
    /\ search.moved
    /\ Cardinality(DOMAIN search.rep) > 1

\* C30: every recursive call of alphaBeta has a depth that is at least 0
\* and strictly smaller than its caller's, and every move applied in
\* quiescence is a capture, a pawn move or raises the halfmove clock, so
\* the call returns.
C30_DepthsDecrease ==
    search.phase \in {"alphaBeta", "quiescence"}
        => /\ search.quiet
           /\ search.phase = "alphaBeta" =>
                \A e \in search.edges : e[3] >= 0 /\ e[3] < e[2]

\* A search of depth 4 that has returned after full-depth searches and
\* late-move reduced searches with both reductions.
C30_Witness ==
    /\ search.phase = "alphaBeta"
    /\ search.depth = 4
    /\ <<"full", 4, 3>> \in search.edges
    /\ <<"lmr", 4, 2>> \in search.edges
    /\ <<"lmr", 4, 1>> \in search.edges
    /\ search.moved

\* ------------------------------------------------------------------
\* main.js: startSelfPlay and stopSelfPlay. A call of startSelfPlay that
\* got past its guard is a loop; it is suspended at the await of getEval
\* ("eval"), of pickMove ("pick") or of the delay timer ("sleep"). The
\* shared game is kept as the number of moves applied to it and its
\* gameOver flag, which applyMove may set. The fields stopped (a stop was
\* requested while the loop was alive) and late (a loop applied a move
\* after a stop) are history, not variables of the code.
\* ------------------------------------------------------------------
MaxLoops == 2

MaxApplied == 3

PlyCap == 400

Loops == 1..MaxLoops

Delays == {0, 150}

noLoop == [pc |-> "none", ply |-> 0, delay |-> 0, stopped |-> FALSE]

alive(l) == selfplay.loop[l].pc \in {"eval", "pick", "sleep"}

\* The while test of line 366 and what follows it up to the next await.
whileTest(sp, l) ==
    IF sp.running /\ ~sp.gameOver
    THEN [sp EXCEPT !.loop[l].pc = "pick"]
    ELSE [sp EXCEPT !.running = FALSE, !.loop[l].pc = "done"]

InitSelfPlay ==
    /\ state = initialState
    /\ plies = 0
    /\ last = noMove
    /\ fenIO = fenIdle
    /\ zob = <<>>
    /\ table = <<>>
    /\ ttLast = <<>>
    /\ pick = <<>>
    /\ probe = <<>>
    /\ search = <<>>
    /\ evl = <<>>
    /\ book = <<>>
    /\ selfplay = [running |-> FALSE, gameOver |-> FALSE, applied |-> 0,
                   loop |-> [l \in Loops |-> noLoop], late |-> FALSE]
    /\ calls = <<>>

\* Lines 343-356: the guard, the flag, and the first await.
SelfPlayEnter ==
    /\ \E l \in Loops, delay \in Delays :
        /\ selfplay.loop[l].pc = "none"
        /\ \A k \in Loops : k < l => selfplay.loop[k].pc # "none"
        /\ IF selfplay.running THEN UNCHANGED selfplay
           ELSE selfplay' = [selfplay EXCEPT
                                !.running = TRUE,
                                !.loop[l] = [noLoop EXCEPT !.pc = "eval",
                                                           !.delay = delay]]
    /\ UNCHANGED <<state, plies, last, fenIO, zob, table, ttLast, pick, probe,
                   search, evl, book, calls>>

\* Lines 358-366: getEval settles; a rejection ends the function with the
\* flag still set.
EvalSettles ==
    /\ \E l \in Loops, ok \in BOOLEAN :
        /\ selfplay.loop[l].pc = "eval"
        /\ selfplay' = IF ok THEN whileTest(selfplay, l)
                       ELSE [selfplay EXCEPT !.loop[l].pc = "failed"]
    /\ UNCHANGED <<state, plies, last, fenIO, zob, table, ttLast, pick, probe,
                   search, evl, book, calls>>

\* Lines 367-374: pickMove settles with a move or with null.
PickSettles ==
    /\ \E l \in Loops, choice \in {"null", "move"}, over \in BOOLEAN :
        /\ selfplay.loop[l].pc = "pick"
        /\ choice = "move" => selfplay.applied < MaxApplied
        /\ choice = "null" => ~over
        /\ LET applied == [selfplay EXCEPT
                            !.applied = @ + 1,
                            !.gameOver = @ \/ over,
                            !.late = @ \/ selfplay.loop[l].stopped,
                            !.loop[l].ply = @ + 1]
           IN  selfplay' =
                 IF choice = "null"
                 THEN [selfplay EXCEPT !.running = FALSE,
                                       !.loop[l].pc = "done"]
                 ELSE IF applied.loop[l].ply > PlyCap
                 THEN [applied EXCEPT !.running = FALSE,
                                      !.loop[l].pc = "done"]
                 ELSE IF applied.loop[l].delay # 0
                 THEN [applied EXCEPT !.loop[l].pc = "sleep"]
                 ELSE whileTest(applied, l)
    /\ UNCHANGED <<state, plies, last, fenIO, zob, table, ttLast, pick, probe,
                   search, evl, book, calls>>

\* Line 372: the delay timer fires.
DelayElapsed ==
    /\ \E l \in Loops :
        /\ selfplay.loop[l].pc = "sleep"
        /\ selfplay' = whileTest(selfplay, l)
    /\ UNCHANGED <<state, plies, last, fenIO, zob, table, ttLast, pick, probe,
                   search, evl, book, calls>>

\* Lines 379-382.
StopSelfPlay ==
    /\ selfplay' = [selfplay EXCEPT
                        !.running = FALSE,
                        !.loop = [l \in Loops |->
                                    IF alive(l)
                                    THEN [@[l] EXCEPT !.stopped = TRUE]
                                    ELSE @[l]]]
    /\ UNCHANGED <<state, plies, last, fenIO, zob, table, ttLast, pick, probe,
                   search, evl, book, calls>>

NextSelfPlay ==
    \/ SelfPlayEnter
    \/ EvalSettles
    \/ PickSettles
    \/ DelayElapsed
    \/ StopSelfPlay

SpecSelfPlay == InitSelfPlay /\ [][NextSelfPlay]_vars

\* C29: at most one self-play loop drives the shared game - there are
\* never two loops inside the while loop at once - and a loop applies no
\* move after a stop was requested.
C29_OneLoop ==
    /\ Cardinality({l \in Loops :
                        selfplay.loop[l].pc \in {"pick", "sleep"}}) <= 1
    /\ ~selfplay.late

\* ------------------------------------------------------------------
\* ai/search.js: two calls of pickMove that may overlap. The module
\* variable DEADLINE is shared; prevDeadline is a local of each call. A
\* call is suspended at its awaits (pc = "searching") and does one unit
\* of its search each time it is resumed. The fields own (the deadline
\* the call computed for itself) and overran (the call searched on after
\* own had passed) are history, not variables of the code.
\* ------------------------------------------------------------------
MaxClock == 6

MaxWork == 2

TickMs == 100

Callers == {"A", "B"}

Budgets == {NoTime, 0, 300}

noCall == [pc |-> "idle", timeMs |-> NoTime, own |-> Infinity,
           prevDeadline |-> Infinity, work |-> 0, overran |-> FALSE]

InitOverlap ==
    /\ state = initialState
    /\ plies = 0
    /\ last = noMove
    /\ fenIO = fenIdle
    /\ zob = <<>>
    /\ table = <<>>
    /\ ttLast = <<>>
    /\ pick = <<>>
    /\ probe = <<>>
    /\ search = <<>>
    /\ evl = <<>>
    /\ book = <<>>
    /\ selfplay = <<>>
    /\ calls = [now |-> 0, DEADLINE |-> Infinity,
                call |-> [c \in Callers |-> noCall]]

\* Lines 492-494 and the way to the first await.
CallPickMove ==
    /\ \E c \in Callers, timeMs \in Budgets, work \in 1..MaxWork :
        /\ calls.call[c].pc = "idle"
        /\ LET d == IF timeMs # NoTime
                    THEN calls.now + Max(MinBudgetMs, timeMs)
                    ELSE Infinity
           IN  calls' = [calls EXCEPT
                            !.DEADLINE = d,
                            !.call[c] = [pc |-> "searching",
                                         timeMs |-> timeMs,
                                         own |-> d,
                                         prevDeadline |-> calls.DEADLINE,
                                         work |-> work,
                                         overran |-> FALSE]]
    /\ UNCHANGED <<state, plies, last, fenIO, zob, table, ttLast, pick, probe,
                   search, evl, book, selfplay>>

\* Lines 640-641.
returnOf(cs, c) ==
    [cs EXCEPT !.DEADLINE = cs.call[c].prevDeadline,
               !.call[c].pc = "returned"]

\* A call is resumed, in the root loop (lines 550-556) or inside alphaBeta
\* (lines 323-326): it tests the shared DEADLINE and either searches one
\* more move or unwinds.
Resume ==
    /\ \E c \in Callers, atRoot \in BOOLEAN :
        /\ calls.call[c].pc = "searching"
        /\ LET me == calls.call[c]
               expired == calls.now >= calls.DEADLINE
               guard == plus(calls.DEADLINE, -calls.now) < GUARD_MS
               stop == IF atRoot
                       THEN me.timeMs # NoTime /\ (expired \/ guard)
                       ELSE expired
               worked == [calls EXCEPT
                            !.call[c].work = @ - 1,
                            !.call[c].overran = @ \/ calls.now >= me.own]
           IN  calls' =
                 IF stop /\ me.timeMs # NoTime THEN returnOf(calls, c)
                 ELSE IF stop THEN
                     IF me.work = 1 THEN returnOf(calls, c)
                     ELSE [calls EXCEPT !.call[c].work = @ - 1]
                 ELSE IF me.work = 1 THEN returnOf(worked, c)
                 ELSE worked
    /\ UNCHANGED <<state, plies, last, fenIO, zob, table, ttLast, pick, probe,
                   search, evl, book, selfplay>>

\* Date.now() advances while every call is suspended.
ClockTick ==
    /\ calls.now < MaxClock * TickMs
    /\ calls' = [calls EXCEPT !.now = @ + TickMs]
    /\ UNCHANGED <<state, plies, last, fenIO, zob, table, ttLast, pick, probe,
                   search, evl, book, selfplay>>

NextOverlap ==
    \/ CallPickMove
    \/ Resume
    \/ ClockTick

SpecOverlap == InitOverlap /\ [][NextOverlap]_vars

\* C28: overlapping calls of pickMove keep their own deadlines - no call
\* searches a further move once its own deadline has passed - and when
\* both calls have returned the module-level DEADLINE has the value it
\* had before the first call.
C28_OwnDeadlines ==
    /\ \A c \in Callers : ~calls.call[c].overran
    /\ (\A c \in Callers : calls.call[c].pc = "returned")
            => calls.DEADLINE = Infinity

\* ------------------------------------------------------------------
\* The two insufficient-material tests: insufficientMaterial of
\* ai/search.js (above) and insufficientMaterial of main.js, on positions
\* with both kings and a few more pieces.
\* ------------------------------------------------------------------
MaxExtras == 3

pieceCounts(s) ==
    LET n(c, ty) == Cardinality({i \in Squares :
                        s.board[i] # Null /\ s.board[i].t = ty
                                          /\ s.board[i].c = c})
    IN  [wp |-> n("w", "P"), bp |-> n("b", "P"),
         wn |-> n("w", "N"), bn |-> n("b", "N"),
         wb |-> n("w", "B"), bb |-> n("b", "B"),
         wr |-> n("w", "R"), br |-> n("b", "R"),
         wq |-> n("w", "Q"), bq |-> n("b", "Q")]

\* The square colours (r + f) & 1 of the bishops, White's first, each
\* side's in square order.
bishopSquareColors(s) ==
    LET of(c) == {i \in Squares : s.board[i] # Null /\ s.board[i].t = "B"
                                                    /\ s.board[i].c = c}
        RECURSIVE list(_, _)
        list(c, i) ==
            IF i > 63 THEN <<>>
            ELSE IF i \in of(c)
            THEN <<((i \div 8) + (i % 8)) % 2>> \o list(c, i + 1)
            ELSE list(c, i + 1)
    IN  [w |-> list("w", 0), b |-> list("b", 0)]

insufficientMaterialGame(s) ==
    LET c == pieceCounts(s)
        totalMinors == c.wn + c.bn + c.wb + c.bb
        all == bishopSquareColors(s).w \o bishopSquareColors(s).b
    IN  IF c.wp + c.bp + c.wr + c.br + c.wq + c.bq # 0 THEN FALSE
        ELSE IF totalMinors = 0 THEN TRUE
        ELSE IF totalMinors = 1 THEN TRUE
        ELSE IF /\ totalMinors = 2 /\ c.wb <= 1 /\ c.bb <= 1
                /\ c.wn = 0 /\ c.bn = 0
                /\ Len(all) = 2 /\ all[1] = all[2] THEN TRUE
        ELSE IF /\ c.wb = 0 /\ c.bb = 0
                /\ \/ (c.wn = 2 /\ c.bn = 0)
                   \/ (c.bn = 2 /\ c.wn = 0)
                   \/ (c.wn = 1 /\ c.bn = 1) THEN TRUE
        ELSE FALSE

\* The pieces a position may have beside the kings on e1 and e8.
Extras ==
    {<<58, "w", "B">>, <<61, "w", "B">>, <<2, "b", "B">>, <<5, "b", "B">>,
     <<57, "w", "N">>, <<62, "w", "N">>, <<1, "b", "N">>,
     <<48, "w", "P">>, <<56, "w", "R">>, <<3, "b", "Q">>}

materialState(xs) ==
    [initialState EXCEPT
        !.board = [i \in Squares |->
                     IF i = 60 THEN [c |-> "w", t |-> "K"]
                     ELSE IF i = 4 THEN [c |-> "b", t |-> "K"]
                     ELSE IF \E x \in xs : x[1] = i
                     THEN LET x == CHOOSE y \in xs : y[1] = i
                          IN  [c |-> x[2], t |-> x[3]]
                     ELSE Null],
        !.castleRight = <<>>]

InitMaterial ==
    /\ state \in {materialState(xs) :
                    xs \in {ys \in SUBSET Extras : Cardinality(ys) <= MaxExtras}}
    /\ plies = 0
    /\ last = noMove
    /\ fenIO = fenIdle
    /\ zob = <<>>
    /\ table = <<>>
    /\ ttLast = <<>>
    /\ pick = <<>>
    /\ probe = <<>>
    /\ search = [phase |-> "idle"]
    /\ evl = <<>>
    /\ book = <<>>
    /\ selfplay = <<>>
    /\ calls = <<>>

\* Both tests are applied to the position.
TestMaterial ==
    /\ search.phase = "idle"
    /\ search' = [phase |-> "material",
                  draw |-> insufficientMaterial(state),
                  gameDraw |-> insufficientMaterialGame(state)]
    /\ UNCHANGED <<state, plies, last, fenIO, zob, table, ttLast, pick, probe,
                   evl, book, selfplay, calls>>

NextMaterial == TestMaterial

SpecMaterial == InitMaterial /\ [][NextMaterial]_vars

\* The positions the tests are to declare drawn: no pawns, rooks or
\* queens, and K vs K, K and one minor piece vs K, K+B vs K+B with the
\* bishops on one square colour, or K and two knights vs the lone K.
listedDraw(s) ==
    LET c == pieceCounts(s)
        cols == bishopSquareColors(s)
        minors == c.wn + c.bn + c.wb + c.bb
    IN  /\ c.wp + c.bp + c.wr + c.br + c.wq + c.bq = 0
        /\ \/ minors <= 1
           \/ /\ minors = 2 /\ c.wb = 1 /\ c.bb = 1
              /\ cols.w[1] = cols.b[1]
           \/ /\ minors = 2
              /\ (c.wn = 2 \/ c.bn = 2)

\* C22: the search's and the game loop's insufficient-material tests
\* declare a draw exactly for the listed positions.
C22_Material ==
    search.phase = "material"
        => /\ search.draw <=> listedDraw(state)
           /\ search.gameDraw <=> listedDraw(state)

\* ------------------------------------------------------------------
\* The writes of the search to the position it is given. The do/undo
\* probes leavesKingInCheck (moves.js) and givesCheckAfter (ai/search.js)
\* write to state.board and write the saved pieces back; the move loops
\* of pickMove, alphaBeta and quiescence apply moves to clones.
\* ------------------------------------------------------------------

\* The square of the pawn an en-passant capture removes, NoSq otherwise.
epCapIdxOf(s, from, to) ==
    LET mover == s.board[from]
        dir == IF mover.c = "w" THEN -1 ELSE 1
        isEP == /\ mover.t = "P" /\ to = s.ep
                /\ from % 8 # to % 8 /\ s.board[to] = Null
    IN  IF isEP THEN toIndex((to \div 8) - dir, to % 8) ELSE NoSq

undoMove_noEp(b, s, from, to) ==
    LET b1 == [b EXCEPT ![from] = s.board[from]]
    IN  [b1 EXCEPT ![to] = s.board[to]]

\* The three writes that undo the move on board b; s is the position
\* before the move, which holds the saved pieces.
undoMove(b, s, from, to) ==
    LET epCap == epCapIdxOf(s, from, to)
        b1 == [b EXCEPT ![from] = s.board[from]]
        b2 == [b1 EXCEPT ![to] = s.board[to]]
    IN  IF epCap # NoSq THEN [b2 EXCEPT ![epCap] = s.board[epCap]] ELSE b2

FrameFENs == {fenEpOnly, fenEpCheck, fenKP, fenCastle}

frameIdle == [op |-> "idle"]

InitFrame ==
    /\ state \in {loadFEN(initialState, fen).state : fen \in FrameFENs}
    /\ plies = 0
    /\ last = noMove
    /\ fenIO = fenIdle
    /\ zob = <<>>
    /\ table = <<>>
    /\ ttLast = <<>>
    /\ pick = <<>>
    /\ probe = frameIdle
    /\ search = <<>>
    /\ evl = <<>>
    /\ book = <<>>
    /\ selfplay = <<>>
    /\ calls = <<>>

\* moves.js: leavesKingInCheck(state, from, to) on the caller's position.
LeavesKingInCheck ==
    /\ probe.op = "idle"
    /\ \E from \in Squares, to \in Squares :
        /\ probe' = [op |-> "leavesKingInCheck", from |-> from, to |-> to,
                     ep |-> state.board[from] # Null
                            /\ epCapIdxOf(state, from, to) # NoSq,
                     before |-> state,
                     result |-> leavesKingInCheck(state, from, to, NoSq)]
        /\ state' = IF state.board[from] = Null THEN state
                    ELSE [state EXCEPT !.board =
                            undoMove(doMove(state, from, to), state, from, to)]
    /\ UNCHANGED <<plies, last, fenIO, zob, table, ttLast, pick, search, evl,
                   book, selfplay, calls>>

\* ai/search.js: givesCheckAfter(state, from, to, enemyKingSq).
GivesCheckAfter ==
    /\ probe.op = "idle"
    /\ \E from \in Squares, to \in Squares :
        /\ probe' = [op |-> "givesCheckAfter", from |-> from, to |-> to,
                     ep |-> state.board[from] # Null
                            /\ epCapIdxOf(state, from, to) # NoSq,
                     before |-> state,
                     result |-> IF state.board[from] = Null THEN FALSE
                                ELSE givesCheckAfter(state, from, to,
                                        findKing(state, Other(state.board[from].c)))]
        /\ state' = IF state.board[from] = Null THEN state
                    ELSE [state EXCEPT !.board =
                            undoMove(doMove(state, from, to), state, from, to)]
    /\ UNCHANGED <<plies, last, fenIO, zob, table, ttLast, pick, search, evl,
                   book, selfplay, calls>>

\* ai/search.js: a move loop clones the position and applies the move to
\* the clone.
SearchChild ==
    /\ probe.op = "idle"
    /\ \E m \in allLegalMoves(state, state.turn) :
        probe' = [op |-> "child", from |-> m[1], to |-> m[2], ep |-> FALSE,
                  before |-> state,
                  result |-> applyMovePure(cloneState(state), m[1], m[2])]
    /\ UNCHANGED <<state, plies, last, fenIO, zob, table, ttLast, pick,
                   search, evl, book, selfplay, calls>>

\* ai/search.js: makeNullMove changes the side to move of a clone.
NullMoveChild ==
    /\ probe.op = "idle"
    /\ probe' = [op |-> "null", from |-> NoSq, to |-> NoSq, ep |-> FALSE,
                 before |-> state, result |-> makeNullMove(state)]
    /\ UNCHANGED <<state, plies, last, fenIO, zob, table, ttLast, pick,
                   search, evl, book, selfplay, calls>>

\* The call has returned; the next one starts from the position it left.
FrameReturn ==
    /\ probe.op # "idle"
    /\ probe' = frameIdle
    /\ UNCHANGED <<state, plies, last, fenIO, zob, table, ttLast, pick,
                   search, evl, book, selfplay, calls>>

NextFrame ==
    \/ FrameReturn
    \/ LeavesKingInCheck
    \/ GivesCheckAfter
    \/ SearchChild
    \/ NullMoveChild

SpecFrame == InitFrame /\ [][NextFrame]_vars

\* C26: the search never changes the caller's position: each probe
\* restores the board for every (from, to), en-passant captures included,
\* and the move loops change only clones, so board, side to move,
\* castling rights, en-passant square and clocks stay as they were.
C26_CallerPosition == [][state' = state]_vars

\* A legal en-passant capture has been probed and the captured pawn is
\* back on its square.
C26_Witness ==
    /\ probe.op = "leavesKingInCheck"
    /\ probe.ep
    /\ state.board[epCapIdxOf(state, probe.from, probe.to)].t = "P"
    /\ state = probe.before
    /\ ~probe.result

====
